---- MODULE Spec2Model ----
(***************************************************************************)
(* WebDAQ control plane: the XDAQ topology controller                      *)
(* (server/app/utils/xdaq.py), the persistent digitizer connections and    *)
(* the board monitor (server/app/services/daq_manager.py) and the run      *)
(* control built on them (daq_manager.py, routes/experiment.py).           *)
(***************************************************************************)
EXTENDS Integers, Sequences, FiniteSets, TLC

(***************************************************************************)
(* Bounds of the model.                                                    *)
(***************************************************************************)
MaxCalls == 2
MaxPolls == 2
MaxStale == 0
MaxBoards == 2
MaxHandles == 3
MaxLocks == 3
MaxRegistry == 3
MaxRun == 2
MaxParam == 1
MaxDoc == 3

(***************************************************************************)
(* Class tags of the topology description (xdaq.py, class topology).       *)
(***************************************************************************)
tag_pt == "pt::atcp"
tag_ru == "ReadoutUnit"
tag_lf == "LocalFilter"
tag_bu == "rubuilder::bu"
tag_mu == "rubuilder::merger"
tag_gf == "GlobalFilter"

App(c, i, n) == [class |-> c, instance |-> i, id |-> n]

(* Topology documents: the xc:Application entries in document order.       *)
DocScenario1 ==
  << App(tag_pt, 0, "pt0"), App(tag_ru, 1, "ru1"), App(tag_bu, 0, "bu0"),
     App(tag_ru, 0, "ru0") >>
DocTwoByTwo ==
  << App(tag_pt, 0, "pt0"), App(tag_ru, 0, "ru0"), App(tag_ru, 1, "ru1"),
     App(tag_bu, 1, "bu1"), App(tag_bu, 0, "bu0") >>
Documents == {DocScenario1, DocTwoByTwo}

(* A document with an actor of every class.                                *)
DocFullPipeline ==
  << App(tag_pt, 0, "pt0"), App(tag_ru, 0, "ru0"), App(tag_lf, 0, "lf0"),
     App(tag_bu, 0, "bu0"), App(tag_mu, 0, "mu0"), App(tag_gf, 0, "gf0") >>

ActorIds == {"pt0", "ru0", "ru1", "bu0", "bu1", "lf0", "mu0", "gf0"}

RECURSIVE SelectClass(_, _)
SelectClass(doc, tag) ==
  IF doc = << >> THEN << >>
  ELSE IF Head(doc).class = tag
       THEN << Head(doc) >> \o SelectClass(Tail(doc), tag)
       ELSE SelectClass(Tail(doc), tag)

(* list.sort(key=instance): stable, ascending.                             *)
RECURSIVE InsertByInstance(_, _)
InsertByInstance(sorted, a) ==
  IF sorted = << >> THEN << a >>
  ELSE IF Head(sorted).instance <= a.instance
       THEN << Head(sorted) >> \o InsertByInstance(Tail(sorted), a)
       ELSE << a >> \o sorted

RECURSIVE SortByInstance(_)
SortByInstance(s) ==
  IF s = << >> THEN << >>
  ELSE InsertByInstance(SortByInstance(SubSeq(s, 1, Len(s) - 1)), s[Len(s)])

StageActorsUnsorted(doc, tag) == SelectClass(doc, tag)
StageActors(doc, tag) == SortByInstance(SelectClass(doc, tag))

RECURSIVE NonEmptyStages(_, _)
NonEmptyStages(doc, tags) ==
  IF tags = << >> THEN << >>
  ELSE IF Len(StageActors(doc, Head(tags))) > 0
       THEN << StageActors(doc, Head(tags)) >> \o NonEmptyStages(doc, Tail(tags))
       ELSE NonEmptyStages(doc, Tail(tags))

get_actors(doc) ==
  [pt   |-> StageActors(doc, tag_pt),
   ru   |-> StageActors(doc, tag_ru),
   list |-> NonEmptyStages(doc, << tag_ru, tag_lf, tag_bu, tag_mu, tag_gf >>)]

RECURSIVE Flatten(_)
Flatten(ss) == IF ss = << >> THEN << >> ELSE Head(ss) \o Flatten(Tail(ss))

Ids(s) == { s[i].id : i \in 1..Len(s) }

(***************************************************************************)
(* State.                                                                  *)
(***************************************************************************)
VARIABLES
  pt_actors,     \* topology._pt_actors
  ru_actors,     \* topology._ru_actors
  list_actors,   \* topology._list_actors: the pipeline stages in order
  stateName,     \* per actor: the state its process reports
  runNumber,     \* per actor: its runNumber parameter
  threads,       \* fan-out threads started whose RPC is not yet delivered
                 \* (stale: started by an earlier call)
  observed,      \* action commands the actors received since the call began
  op,            \* the transition call in progress
  pc,            \* its position
  callNo,        \* number of transition calls made
  idx,           \* stage index of the fan-out / poll loop
  k,             \* position of the poll sweep
  allFlag,       \* allConfigured / allRunning / allStarted / allStopped
  actorOK,
  nbActors,
  polls,         \* sweeps of the current poll loop
  myThreads,     \* actors commanded by the current call
  ret            \* result of the call

VARIABLES
  parser,        \* topology._parser: the xc:Application entries of the document
  writeFlags,    \* topology._writeRU .. _writeGF, by class tag
  writeDataFile, \* per actor: its writeDataFile parameter
  merge_window,  \* per actor: its merge_window parameter
  multiplicity   \* per actor: its multiplicity parameter

VARIABLES
  test_flag,          \* DAQManager.test_flag / DigitizerContainer.test_flag
  daq_state,          \* DAQManager.daq_state
  settings,           \* the content of conf/settings.json
  digitizers,         \* DigitizerContainer.digitizers: board id -> digitizer object
  connection_locks,   \* DigitizerContainer.connection_locks: board id -> Lock object
  connected,          \* per digitizer object: Digitizer._connected
  lockOwner,          \* per Lock object: the thread that holds it
  board_status,       \* DAQManager.board_status
  monitor_thread,     \* DAQManager.monitor_thread
  monitor_stop_event, \* DAQManager.monitor_stop_event
  tpc,                \* per thread: its position
  stk,                \* per thread: the return positions of the calls in progress
  loc                 \* per thread: its local variables

VARIABLES
  current_session,    \* ResolutionTuner.current_session
  session_status,     \* per session: TuningSession.status
  stop_event,         \* ResolutionTuner.stop_event
  tuner_lock,         \* ResolutionTuner.lock: the call that holds it
  tuning_pc,          \* per session: the position of its _tuning_loop thread
  tuning_loc,         \* per session: the local variables of its _tuning_loop
  save_before         \* per session: daq_state['save'] when start_tuning made it

VARIABLES
  collecting,         \* StatsManager.collecting
  collection_thread,  \* StatsManager.collection_thread
  collection_lock,    \* StatsManager.collection_lock: the call that holds it
  stats_file,         \* StatsManager.stats_file (with run_start_time): its run
  current_run_number, \* StatsManager.current_run_number
  collection_pc,      \* per collection thread: its position in _collection_loop
  stats_lines         \* per run: the data lines of data/run<n>/stats.txt

tunerVars == << current_session, session_status, stop_event, tuner_lock, tuning_pc,
                tuning_loc, save_before >>
statsVars == << collecting, collection_thread, collection_lock, stats_file,
                current_run_number, collection_pc, stats_lines >>
svcVars == << tunerVars, statsVars >>
listVars == << pt_actors, ru_actors, list_actors, parser, svcVars >>
paramVars == << writeFlags, writeDataFile, merge_window, multiplicity >>
topoVars == << listVars, paramVars >>
poolVars == << digitizers, connection_locks, connected, lockOwner >>
mgrVars == << test_flag, daq_state, settings >>
monVars == << board_status, monitor_thread, monitor_stop_event >>
thrVars == << tpc, stk, loc >>
boardVars == << poolVars, mgrVars, monVars, thrVars >>
actorVars == << stateName, runNumber, threads, observed >>
callVars == << op, pc, callNo, idx, k, allFlag, actorOK, nbActors, polls, myThreads, ret >>
vars == << topoVars, actorVars, callVars, boardVars >>

TransitionOps == {"configure_pt", "enable_pt", "configure", "start", "halt"}
PtOps == {"configure_pt", "enable_pt"}

(* The action each call fans out and the state it polls for.               *)
ActionOf(o) ==
  CASE o = "configure_pt" -> "Configure"
    [] o = "enable_pt"    -> "Enable"
    [] o = "configure"    -> "Configure"
    [] o = "start"        -> "Enable"
    [] o = "halt"         -> "Halt"

TargetOf(o) ==
  CASE o = "configure_pt" -> "Ready"
    [] o = "enable_pt"    -> "Enabled"
    [] o = "configure"    -> "Configured"
    [] o = "start"        -> "Running"
    [] o = "halt"         -> "Halted"

(* The finite state machine of an actor process: the state after it        *)
(* receives an action command.                                             *)
IsTransport(a) == a \in Ids(pt_actors)

ActorFsm(a, s, cmd) ==
  CASE cmd = "Configure" /\ s = "Halted" ->
         IF IsTransport(a) THEN "Ready" ELSE "Configured"
    [] cmd = "Enable" /\ s = "Ready" /\ IsTransport(a) -> "Enabled"
    [] cmd = "Enable" /\ s = "Configured" /\ ~IsTransport(a) -> "Running"
    [] cmd = "Halt" -> "Halted"
    [] OTHER -> s

(***************************************************************************)
(* Initial state: a topology loaded from one of the documents, all actors  *)
(* halted, no call in progress.                                            *)
(***************************************************************************)
StageTags == {tag_ru, tag_lf, tag_bu, tag_mu, tag_gf}

(* _writeRU .. _writeGF = False; the parameters of freshly started actors.  *)
InitParams ==
  /\ writeFlags = [g \in StageTags |-> FALSE]
  /\ writeDataFile = [a \in ActorIds |-> FALSE]
  /\ merge_window = [a \in ActorIds |-> 0]
  /\ multiplicity = [a \in ActorIds |-> 0]

InitTopology ==
  \E doc \in Documents :
    /\ parser = doc
    /\ pt_actors = get_actors(doc).pt
    /\ ru_actors = get_actors(doc).ru
    /\ list_actors = get_actors(doc).list
    /\ InitParams

InitActors ==
  /\ stateName = [a \in ActorIds |-> "Halted"]
  /\ runNumber = [a \in ActorIds |-> 0]
  /\ threads = {}
  /\ observed = {}

InitCall ==
  /\ op = "none"
  /\ pc = "idle"
  /\ callNo = 0
  /\ idx = 0
  /\ k = 0
  /\ allFlag = FALSE
  /\ actorOK = 0
  /\ nbActors = 0
  /\ polls = 0
  /\ myThreads = {}
  /\ ret = "none"


(***************************************************************************)
(* A transition call begins.                                               *)
(***************************************************************************)
Begin(o) ==
  /\ pc \in {"idle", "done"}
  /\ callNo < MaxCalls
  /\ Cardinality(threads) <= MaxStale
  /\ op' = o
  /\ pc' = "check"
  /\ callNo' = callNo + 1
  /\ idx' = 0
  /\ k' = 0
  /\ allFlag' = FALSE
  /\ actorOK' = 0
  /\ nbActors' = 0
  /\ polls' = 0
  /\ myThreads' = {}
  /\ ret' = "none"
  /\ observed' = {}
  /\ threads' = { [t EXCEPT !.stale = TRUE] : t \in threads }
  /\ UNCHANGED << topoVars, stateName >>

(* A call made by a client of the topology.                                *)
Call(o) == Begin(o) /\ UNCHANGED << runNumber, boardVars >>

(* The actor whose status decides the short-circuit.                       *)
FirstActorLast(o) == IF o \in PtOps THEN pt_actors[Len(pt_actors)] ELSE ru_actors[Len(ru_actors)]
FirstActor(o) == IF o \in PtOps THEN pt_actors[1] ELSE ru_actors[1]

(* The stage order of the fan-out loop.                                    *)
FirstStage(o) == IF o = "start" THEN Len(list_actors) ELSE 1

(* if first.check_status() == target: return True                          *)
ShortCircuit ==
  /\ pc = "check"
  /\ \/ /\ stateName[FirstActor(op).id] = TargetOf(op)
        /\ pc' = "done"
        /\ ret' = "true"
        /\ idx' = idx
     \/ /\ stateName[FirstActor(op).id] # TargetOf(op)
        /\ pc' = "fanout"
        /\ ret' = ret
        /\ idx' = FirstStage(op)
     \/ /\ pc' = "done"          \* check_status() raises a transport error
        /\ ret' = "raised"
        /\ idx' = idx
  /\ UNCHANGED << topoVars, actorVars, op, callNo, k, allFlag, actorOK, nbActors,
                  polls, myThreads, boardVars >>

(* The actors one iteration of the fan-out loop commands.                  *)
FanOutTargets == IF op \in PtOps THEN pt_actors ELSE list_actors[idx]

(* The actors one sweep of the poll loop reads.                            *)
PollTargets ==
  IF op \in PtOps THEN pt_actors
  ELSE IF op = "start" THEN Flatten(list_actors)
  ELSE list_actors[idx]

(* One iteration of the loop over stages: a thread per actor of the stage. *)
(* start() starts the threads of every stage before it polls; the other    *)
(* calls poll after each stage.                                            *)
FanOut ==
  /\ pc = "fanout"
  /\ nbActors' = nbActors + Len(FanOutTargets)
  /\ threads' = threads \cup
        { [actor |-> a, cmd |-> ActionOf(op), stale |-> FALSE] : a \in Ids(FanOutTargets) }
  /\ myThreads' = myThreads \cup Ids(FanOutTargets)
  /\ IF op = "start" /\ idx > 1
     THEN /\ idx' = idx - 1
          /\ pc' = "fanout"
          /\ UNCHANGED << k, allFlag, polls >>
     ELSE /\ idx' = idx
          /\ pc' = "poll"
          /\ k' = 1
          /\ allFlag' = FALSE
          /\ polls' = 0
  /\ UNCHANGED << topoVars, stateName, runNumber, observed, op, callNo, actorOK, ret,
                  boardVars >>

(* After a sweep that ended with the flag set: the next stage, or the end  *)
(* of the loops.                                                           *)
AfterLoopPcNoIncrement == "return"
AfterLoopPc == IF op = "halt" THEN "increment" ELSE "return"

(* One status read of the poll loop (after time.sleep(0.5) at the start of *)
(* a sweep).  The flag is overwritten by every read; the sweep is repeated *)
(* while the flag is false after the last read.                            *)
PollFlag(status, target) == status = target

PollRead ==
  /\ pc = "poll"
  /\ LET a == PollTargets[k]
         hit == PollFlag(stateName[a.id], TargetOf(op))
         last == (k = Len(PollTargets))
     IN /\ allFlag' = hit
        /\ actorOK' = IF hit THEN actorOK + 1 ELSE actorOK
        /\ IF ~last
           THEN /\ k' = k + 1
                /\ UNCHANGED << pc, idx, polls >>
           ELSE IF ~hit
           THEN /\ polls < MaxPolls
                /\ k' = 1
                /\ polls' = polls + 1
                /\ UNCHANGED << pc, idx >>
           ELSE IF op \in {"configure", "halt"} /\ idx < Len(list_actors)
           THEN /\ idx' = idx + 1
                /\ pc' = "fanout"
                /\ UNCHANGED << k, polls >>
           ELSE /\ pc' = AfterLoopPc
                /\ UNCHANGED << k, idx, polls >>
  /\ UNCHANGED << topoVars, actorVars, op, callNo, nbActors, myThreads, ret, boardVars >>

(* check_status() raises a transport error inside the poll loop.           *)
PollRaise ==
  /\ pc = "poll"
  /\ pc' = "done"
  /\ ret' = "raised"
  /\ UNCHANGED << topoVars, actorVars, op, callNo, idx, k, allFlag, actorOK, nbActors,
                  polls, myThreads, boardVars >>

Poll == PollRead \/ PollRaise

(* halt(): self.set_run_number(self.return_run_number()+1)                 *)
return_run_number == runNumber[ru_actors[1].id]

set_run_number(n) ==
  [a \in ActorIds |-> IF a \in Ids(Flatten(list_actors)) THEN n ELSE runNumber[a]]

IncrementRun ==
  /\ pc = "increment"
  /\ runNumber' = set_run_number(return_run_number + 1)
  /\ pc' = "return"
  /\ UNCHANGED << topoVars, stateName, threads, observed, op, callNo, idx, k, allFlag,
                  actorOK, nbActors, polls, myThreads, ret, boardVars >>

(* if nbActors == actorOK: return True else: return False                  *)
Result(n, ok) == IF n = ok THEN "true" ELSE "false"

Return ==
  /\ pc = "return"
  /\ ret' = Result(nbActors, actorOK)
  /\ pc' = "done"
  /\ UNCHANGED << topoVars, actorVars, op, callNo, idx, k, allFlag, actorOK, nbActors,
                  polls, myThreads, boardVars >>

(* A fan-out thread performs its RPC: the actor receives the command and   *)
(* changes state; or the RPC fails in the thread and nothing is received.  *)
Deliver ==
  \E th \in threads :
    /\ threads' = threads \ {th}
    /\ \/ /\ observed' = observed \cup {th}
          /\ stateName' = [stateName EXCEPT ![th.actor] = ActorFsm(th.actor, @, th.cmd)]
       \/ UNCHANGED << observed, stateName >>
    /\ UNCHANGED << topoVars, runNumber, callVars, boardVars >>


(***************************************************************************)
(* Persistent digitizer connections (class DigitizerContainer) and the     *)
(* board registry of DAQManager.  The operations are run by threads; a     *)
(* thread executes one labelled step at a time.                            *)
(***************************************************************************)
ReqThreads == {"req"}
MonThreads == {"mon", "mon2"}
Threads == {"req", "req2"} \cup MonThreads

BoardIds == 1..MaxBoards
Handles == 1..MaxHandles
Locks == 1..MaxLocks
NoneId == 0
Unavailable == -1
RegValues == {0, 16}
AttemptLimit == 3

NoLocals == [board |-> NoneId, dgtz |-> NoneId, lock |-> NoneId, attempt |-> 0,
             i |-> 0, rv |-> "none", val |-> Unavailable, top |-> "none",
             flag |-> FALSE]

(* Objects are identified by a number; the numbers of objects nothing      *)
(* refers to any more are used again.                                      *)
UsedHandle(h) ==
  \/ \E b \in BoardIds : digitizers[b] = h
  \/ \E t \in Threads : loc[t].dgtz = h
FreeHandles == { h \in Handles : ~UsedHandle(h) }
NewHandle == CHOOSE h \in FreeHandles : \A g \in FreeHandles : h <= g

UsedLock(l) ==
  \/ lockOwner[l] # "none"
  \/ \E b \in BoardIds : connection_locks[b] = l
  \/ \E t \in Threads : loc[t].lock = l
FreeLocks == { l \in Locks : ~UsedLock(l) }
NewLock == CHOOSE l \in FreeLocks : \A g \in FreeLocks : l <= g

(* Call and return of a thread.                                            *)
Enter(t, entry, back) ==
  /\ tpc' = [tpc EXCEPT ![t] = entry]
  /\ stk' = [stk EXCEPT ![t] = << back >> \o stk[t]]

Leave(t) ==
  /\ tpc' = [tpc EXCEPT ![t] = Head(stk[t])]
  /\ stk' = [stk EXCEPT ![t] = Tail(stk[t])]

Goto(t, label) ==
  /\ tpc' = [tpc EXCEPT ![t] = label]
  /\ stk' = stk

notThreads == << topoVars, actorVars, callVars >>

(* ---- DigitizerContainer.add_board / _create_digitizer ----------------- *)

(* self.connection_locks[board_id] = threading.Lock(); then               *)
(* _create_digitizer: None in test mode, else a new digitizer object.      *)
AddBoardLock(t) ==
  /\ tpc[t] = "ab_lock"
  /\ FreeLocks # {}
  /\ connection_locks' = [connection_locks EXCEPT ![loc[t].board] = NewLock]
  /\ IF test_flag
     THEN /\ loc' = [loc EXCEPT ![t].dgtz = NoneId, ![t].attempt = 0]
          /\ connected' = connected
          /\ Goto(t, "ab_result")
     ELSE /\ FreeHandles # {}
          /\ loc' = [loc EXCEPT ![t].dgtz = NewHandle, ![t].attempt = 0]
          /\ connected' = [connected EXCEPT ![NewHandle] = FALSE]
          /\ Goto(t, "ab_open")
  /\ UNCHANGED << notThreads, digitizers, lockOwner, mgrVars, monVars >>

(* for attempt in range(3)                                                  *)
MoreAttemptsOffByOne(attempt) == attempt <= AttemptLimit
MoreAttempts(attempt) == attempt < AttemptLimit

(* One iteration: dgtz.open() connects, or it raises / stays unconnected   *)
(* and the loop sleeps a second and goes on.                               *)
AddBoardOpen(t) ==
  /\ tpc[t] = "ab_open"
  /\ \E ok \in BOOLEAN :
       IF ok
       THEN /\ connected' = [connected EXCEPT ![loc[t].dgtz] = TRUE]
            /\ loc' = [loc EXCEPT ![t].attempt = @ + 1]
            /\ Goto(t, "ab_result")
       ELSE /\ connected' = connected
            /\ IF MoreAttempts(loc[t].attempt + 1)
               THEN /\ loc' = [loc EXCEPT ![t].attempt = @ + 1]
                    /\ Goto(t, "ab_open")
               ELSE /\ loc' = [loc EXCEPT ![t].attempt = @ + 1, ![t].dgtz = NoneId]
                    /\ Goto(t, "ab_result")
  /\ UNCHANGED << notThreads, digitizers, connection_locks, lockOwner, mgrVars, monVars >>

(* if dgtz is not None: store it, return True;                             *)
(* else: self.connection_locks.pop(board_id, None), return False           *)
AddBoardResult(t) ==
  /\ tpc[t] = "ab_result"
  /\ IF loc[t].dgtz # NoneId
     THEN /\ digitizers' = [digitizers EXCEPT ![loc[t].board] = loc[t].dgtz]
          /\ connection_locks' = connection_locks
          /\ loc' = [loc EXCEPT ![t].rv = "true", ![t].dgtz = NoneId]
     ELSE /\ connection_locks' = [connection_locks EXCEPT ![loc[t].board] = NoneId]
          /\ digitizers' = digitizers
          /\ loc' = [loc EXCEPT ![t].rv = "false"]
  /\ Leave(t)
  /\ UNCHANGED << notThreads, connected, lockOwner, mgrVars, monVars >>

(* ---- DigitizerContainer.remove_board ---------------------------------- *)

(* if board_id in self.digitizers: close() (errors are logged) and del;    *)
(* then self.connection_locks.pop(board_id, None)                          *)
RemoveBoardClose(t) ==
  /\ tpc[t] = "rb_close"
  /\ IF digitizers[loc[t].board] # NoneId
     THEN /\ connected' = [connected EXCEPT ![digitizers[loc[t].board]] = FALSE]
          /\ digitizers' = [digitizers EXCEPT ![loc[t].board] = NoneId]
     ELSE UNCHANGED << connected, digitizers >>
  /\ Goto(t, "rb_pop")
  /\ UNCHANGED << notThreads, connection_locks, lockOwner, mgrVars, monVars, loc >>

RemoveBoardPop(t) ==
  /\ tpc[t] = "rb_pop"
  /\ connection_locks' = [connection_locks EXCEPT ![loc[t].board] = NoneId]
  /\ Leave(t)
  /\ UNCHANGED << notThreads, digitizers, connected, lockOwner, mgrVars, monVars, loc >>

(* ---- DigitizerContainer.refresh_board_connection ----------------------- *)
(* self.remove_board(board_id); return self.add_board(board_config)        *)
RefreshRemove(t) ==
  /\ tpc[t] = "rf_remove"
  /\ Enter(t, "rb_close", "rf_add")
  /\ UNCHANGED << notThreads, poolVars, mgrVars, monVars, loc >>

RefreshAdd(t) ==
  /\ tpc[t] = "rf_add"
  /\ Goto(t, "ab_lock")
  /\ UNCHANGED << notThreads, poolVars, mgrVars, monVars, loc >>

(* ---- DigitizerContainer.read_register ---------------------------------- *)

(* test mode: return 0; no digitizer or no lock for the id: return None.   *)
ReadRegisterLookup(t) ==
  /\ tpc[t] = "rr_get"
  /\ IF test_flag
     THEN /\ loc' = [loc EXCEPT ![t].val = 0]
          /\ Leave(t)
     ELSE IF digitizers[loc[t].board] = NoneId \/ connection_locks[loc[t].board] = NoneId
     THEN /\ loc' = [loc EXCEPT ![t].val = Unavailable]
          /\ Leave(t)
     ELSE /\ loc' = [loc EXCEPT ![t].dgtz = digitizers[loc[t].board],
                                ![t].lock = connection_locks[loc[t].board]]
          /\ Goto(t, "rr_acquire")
  /\ UNCHANGED << notThreads, poolVars, mgrVars, monVars >>

(* leaving a with block: the lock is released                              *)
ReleaseNever(owner, l) == owner
Release(owner, l) == [owner EXCEPT ![l] = "none"]

(* with lock: blocks until the lock is free.                               *)
ReadRegisterAcquire(t) ==
  /\ tpc[t] = "rr_acquire"
  /\ lockOwner[loc[t].lock] = "none"
  /\ lockOwner' = [lockOwner EXCEPT ![loc[t].lock] = t]
  /\ Goto(t, "rr_read")
  /\ UNCHANGED << notThreads, digitizers, connection_locks, connected, mgrVars, monVars, loc >>

(* if dgtz.get_connected(): return dgtz.read_register(address) (a raised   *)
(* error is caught: None); else None.  Leaving the with block releases.    *)
ReadRegisterRead(t) ==
  /\ tpc[t] = "rr_read"
  /\ \E v \in RegValues \cup {Unavailable} :
       /\ (~connected[loc[t].dgtz]) => v = Unavailable
       /\ loc' = [loc EXCEPT ![t].val = v, ![t].dgtz = NoneId, ![t].lock = NoneId]
  /\ lockOwner' = Release(lockOwner, loc[t].lock)
  /\ Leave(t)
  /\ UNCHANGED << notThreads, digitizers, connection_locks, connected, mgrVars, monVars >>


(***************************************************************************)
(* DAQManager: the board registry.                                         *)
(***************************************************************************)
(* _update_project: json.dump(self.daq_state) to conf/settings.json        *)
UpdateProject(state) == settings' = state

IndexOfBoardAny(boards, b) == IF Len(boards) > 0 THEN 1 ELSE 0
IndexOfBoard(boards, b) ==
  IF \E j \in 1..Len(boards) : boards[j] = b
  THEN CHOOSE j \in 1..Len(boards) :
         boards[j] = b /\ \A m \in 1..Len(boards) : boards[m] = b => j <= m
  ELSE 0

(* The insertion loop of add_board: before the first entry with a larger   *)
(* id, else at the end (as the number of entries kept in front).           *)
InsertIndexAppend(boards, b) == Len(boards)
InsertIndex(boards, b) ==
  IF \E j \in 1..Len(boards) : boards[j] > b
  THEN (CHOOSE j \in 1..Len(boards) :
          boards[j] > b /\ \A m \in 1..Len(boards) : boards[m] > b => j <= m) - 1
  ELSE Len(boards)

InsertAt(boards, n, b) ==
  SubSeq(boards, 1, n) \o << b >> \o SubSeq(boards, n + 1, Len(boards))

RemoveAt(boards, j) ==
  SubSeq(boards, 1, j - 1) \o SubSeq(boards, j + 1, Len(boards))

(* ---- DAQManager.add_board ---------------------------------------------- *)
(* if not self.digitizer_container.add_board(board_config): return False   *)
ManagerAddBoardCall(t) ==
  /\ tpc[t] = "mab_call"
  /\ Enter(t, "ab_lock", "mab_check")
  /\ UNCHANGED << notThreads, poolVars, mgrVars, monVars, loc >>

(* dgtz = get_digitizer(board_id), lock = get_connection_lock(board_id)    *)
ManagerAddBoardCheck(t) ==
  /\ tpc[t] = "mab_check"
  /\ IF loc[t].rv = "false" \/ digitizers[loc[t].board] = NoneId
     THEN /\ loc' = [loc EXCEPT ![t].rv = "false"]
          /\ Leave(t)
     ELSE IF connection_locks[loc[t].board] = NoneId
     THEN /\ loc' = loc                       \* with None: raises, handled below
          /\ Goto(t, "mab_except")
     ELSE /\ loc' = [loc EXCEPT ![t].dgtz = digitizers[loc[t].board],
                                ![t].lock = connection_locks[loc[t].board]]
          /\ Goto(t, "mab_acquire")
  /\ UNCHANGED << notThreads, poolVars, mgrVars, monVars >>

ManagerAddBoardAcquire(t) ==
  /\ tpc[t] = "mab_acquire"
  /\ lockOwner[loc[t].lock] = "none"
  /\ lockOwner' = [lockOwner EXCEPT ![loc[t].lock] = t]
  /\ Goto(t, "mab_info")
  /\ UNCHANGED << notThreads, digitizers, connection_locks, connected, mgrVars, monVars, loc >>

(* with lock: if connected: get_info(), read_pha()/read_psd() (the lock is *)
(* released on leaving the block, also by an exception);                   *)
(* else: self.digitizer_container.remove_board(board_id); return False     *)
ManagerAddBoardInfo(t) ==
  /\ tpc[t] = "mab_info"
  /\ IF connected[loc[t].dgtz]
     THEN /\ lockOwner' = Release(lockOwner, loc[t].lock)
          /\ loc' = [loc EXCEPT ![t].dgtz = NoneId, ![t].lock = NoneId]
          /\ \/ Goto(t, "mab_files")
             \/ Goto(t, "mab_except")
     ELSE /\ lockOwner' = lockOwner
          /\ loc' = loc
          /\ Enter(t, "rb_close", "mab_unlock")
  /\ UNCHANGED << notThreads, digitizers, connection_locks, connected, mgrVars, monVars >>

ManagerAddBoardUnlock(t) ==
  /\ tpc[t] = "mab_unlock"
  /\ lockOwner' = Release(lockOwner, loc[t].lock)
  /\ loc' = [loc EXCEPT ![t].dgtz = NoneId, ![t].lock = NoneId, ![t].rv = "false"]
  /\ Leave(t)
  /\ UNCHANGED << notThreads, digitizers, connection_locks, connected, mgrVars, monVars >>

(* The configuration and calibration files are written (an error goes to   *)
(* the handler), the board is inserted at its place, the project updated.  *)
ManagerAddBoardInsert(t) ==
  /\ tpc[t] = "mab_files"
  /\ \/ /\ daq_state' = [daq_state EXCEPT !.boards =
                InsertAt(@, InsertIndex(@, loc[t].board), loc[t].board)]
        /\ UpdateProject(daq_state')
        /\ loc' = [loc EXCEPT ![t].rv = "true"]
        /\ Leave(t)
     \/ /\ UNCHANGED << daq_state, settings, loc >>
        /\ Goto(t, "mab_except")
  /\ UNCHANGED << notThreads, poolVars, test_flag, monVars >>

(* except Exception: self.digitizer_container.remove_board(board_id);      *)
(* return False                                                            *)
ManagerAddBoardExcept(t) ==
  /\ tpc[t] = "mab_except"
  /\ Enter(t, "rb_close", "mab_fail")
  /\ UNCHANGED << notThreads, poolVars, mgrVars, monVars, loc >>

ManagerAddBoardFail(t) ==
  /\ tpc[t] = "mab_fail"
  /\ loc' = [loc EXCEPT ![t].rv = "false"]
  /\ Leave(t)
  /\ UNCHANGED << notThreads, poolVars, mgrVars, monVars >>

(* ---- DAQManager.remove_board ------------------------------------------- *)
ManagerRemoveBoardFind(t) ==
  /\ tpc[t] = "mrb_find"
  /\ IF IndexOfBoard(daq_state.boards, loc[t].board) # 0
     THEN /\ Enter(t, "rb_close", "mrb_pop")
          /\ loc' = [loc EXCEPT ![t].i = IndexOfBoard(daq_state.boards, loc[t].board)]
     ELSE /\ loc' = [loc EXCEPT ![t].rv = "false"]
          /\ Leave(t)
  /\ UNCHANGED << notThreads, poolVars, mgrVars, monVars >>

(* The calibration file is removed (an error returns False), the entry is  *)
(* popped and the project updated.                                         *)
ManagerRemoveBoardPop(t) ==
  /\ tpc[t] = "mrb_pop"
  /\ \/ /\ loc[t].i <= Len(daq_state.boards)
        /\ daq_state' = [daq_state EXCEPT !.boards = RemoveAt(@, loc[t].i)]
        /\ UpdateProject(daq_state')
        /\ loc' = [loc EXCEPT ![t].rv = "true", ![t].i = 0]
     \/ /\ UNCHANGED << daq_state, settings >>
        /\ loc' = [loc EXCEPT ![t].rv = "false", ![t].i = 0]
  /\ Leave(t)
  /\ UNCHANGED << notThreads, poolVars, test_flag, monVars >>

(* ---- DAQManager.refresh_board_connection ------------------------------- *)
ManagerRefresh(t) ==
  /\ tpc[t] = "mrf_find"
  /\ IF IndexOfBoard(daq_state.boards, loc[t].board) # 0
     THEN /\ Goto(t, "rf_remove")
          /\ loc' = loc
     ELSE /\ loc' = [loc EXCEPT ![t].rv = "false"]
          /\ Leave(t)
  /\ UNCHANGED << notThreads, poolVars, mgrVars, monVars >>


(***************************************************************************)
(* DAQManager: the board monitoring thread.                                *)
(***************************************************************************)
NoStatus == [known |-> FALSE, failed |-> FALSE, last_value |-> 0]
FreshStatus == [known |-> TRUE, failed |-> FALSE, last_value |-> 0]

IsAlive(m) == m # "none" /\ tpc[m] # "dead"

(* if board_id not in self.board_status                                    *)
NeedsInitAlways(st) == TRUE
NeedsInit(st) == ~st.known

(* the two skips of the loop body: already failed, or a non-zero value     *)
SkipBoardNever(st) == FALSE
SkipBoard(st) == st.failed \/ st.last_value # 0

(* the status after a successful read of the register                      *)
StatusAfterRead(st, value) ==
  [st EXCEPT !.last_value = value,
             !.failed = IF value # 0 THEN TRUE ELSE @]

(* while not self.monitor_stop_event.is_set(): ... / stop_event.wait(1.0)  *)
MonitorLoop(m) ==
  /\ tpc[m] = "m_loop"
  /\ IF monitor_stop_event
     THEN /\ Goto(m, "dead")
          /\ loc' = [loc EXCEPT ![m] = NoLocals]
     ELSE /\ Goto(m, "m_board")
          /\ loc' = [loc EXCEPT ![m].i = 1]
  /\ UNCHANGED << notThreads, poolVars, mgrVars, monVars >>

(* for board in self.daq_state['boards']: one board of the iteration, up   *)
(* to the call of read_register.                                           *)
MonitorBoard(m) ==
  /\ tpc[m] = "m_board"
  /\ IF loc[m].i > Len(daq_state.boards)
     THEN /\ Goto(m, "m_loop")
          /\ UNCHANGED << loc, board_status >>
     ELSE LET b == daq_state.boards[loc[m].i]
              st == IF NeedsInit(board_status[b]) THEN FreshStatus ELSE board_status[b]
          IN /\ board_status' = [board_status EXCEPT ![b] = st]
             /\ IF SkipBoard(st)
                THEN /\ loc' = [loc EXCEPT ![m].i = @ + 1]
                     /\ Goto(m, "m_board")
                ELSE /\ loc' = [loc EXCEPT ![m].board = b]
                     /\ Enter(m, "rr_get", "m_value")
  /\ UNCHANGED << notThreads, poolVars, mgrVars, monitor_thread, monitor_stop_event >>

(* value is not None: record it; else: refresh the connection once.        *)
MonitorValue(m) ==
  /\ tpc[m] = "m_value"
  /\ IF loc[m].val # Unavailable
     THEN /\ board_status' = [board_status EXCEPT ![loc[m].board] =
                                 StatusAfterRead(@, loc[m].val)]
          /\ loc' = [loc EXCEPT ![m].i = @ + 1]
          /\ Goto(m, "m_board")
     ELSE /\ board_status' = board_status
          /\ loc' = loc
          /\ Enter(m, "mrf_find", "m_next")
  /\ UNCHANGED << notThreads, poolVars, mgrVars, monitor_thread, monitor_stop_event >>

MonitorNextSame(m) ==
  /\ tpc[m] = "m_next"
  /\ loc' = loc
  /\ Goto(m, "m_board")
  /\ UNCHANGED << notThreads, poolVars, mgrVars, monVars >>

(* after the refresh (and the log line): on with the next board            *)
MonitorNext(m) ==
  /\ tpc[m] = "m_next"
  /\ loc' = [loc EXCEPT ![m].i = @ + 1]
  /\ Goto(m, "m_board")
  /\ UNCHANGED << notThreads, poolVars, mgrVars, monVars >>

(* ---- DAQManager.start_board_monitoring --------------------------------- *)
(* if self.monitor_thread and self.monitor_thread.is_alive(): return       *)
StartMonitoringCheck(t) ==
  /\ tpc[t] = "sm_check"
  /\ IF IsAlive(monitor_thread) THEN Leave(t) ELSE Goto(t, "sm_start")
  /\ UNCHANGED << notThreads, poolVars, mgrVars, monVars, loc >>

ResetStatuses(status, boards) ==
  [b \in BoardIds |-> IF \E j \in 1..Len(boards) : boards[j] = b
                      THEN FreshStatus ELSE status[b]]

(* threading.Thread(target=self._monitor_boards_thread): the new thread    *)
(* takes the first identity that no living thread has                      *)
NewThread == IF tpc["mon"] = "dead" THEN "mon" ELSE "mon2"

(* reset all board statuses, clear the stop event, start a new thread      *)
StartMonitoringStart(t) ==
  /\ tpc[t] = "sm_start"
  /\ LET m == NewThread IN
       /\ tpc[m] = "dead"
       /\ board_status' = ResetStatuses(board_status, daq_state.boards)
       /\ monitor_stop_event' = FALSE
       /\ monitor_thread' = m
       /\ tpc' = [tpc EXCEPT ![t] = Head(stk[t]), ![m] = "m_loop"]
       /\ stk' = [stk EXCEPT ![t] = Tail(stk[t])]
  /\ UNCHANGED << notThreads, poolVars, mgrVars, loc >>

(* ---- DAQManager.stop_board_monitoring ---------------------------------- *)
(* if alive: self.monitor_stop_event.set(), then join(timeout=5.0)         *)
StopMonitoringSet(t) ==
  /\ tpc[t] = "st_check"
  /\ IF IsAlive(monitor_thread)
     THEN /\ monitor_stop_event' = TRUE
          /\ Goto(t, "st_join")
     ELSE /\ monitor_stop_event' = monitor_stop_event
          /\ Leave(t)
  /\ UNCHANGED << notThreads, poolVars, mgrVars, board_status, monitor_thread, loc >>

(* join returns when the thread has ended, or after the timeout            *)
StopMonitoringJoin(t) ==
  /\ tpc[t] = "st_join"
  /\ Leave(t)
  /\ UNCHANGED << notThreads, poolVars, mgrVars, monVars, loc >>


(***************************************************************************)
(* Run control: the start_run route and the DAQManager run operations.     *)
(***************************************************************************)
RunState == << daq_state.running, daq_state.start_time, daq_state.run >>

Now == 1
NoTime == -1

(* topology.set_run_number reaching the first n actors of the stages       *)
SetRunNumberUpTo(n, cnt) ==
  [a \in ActorIds |->
     IF \E j \in 1..cnt : Flatten(list_actors)[j].id = a THEN n ELSE runNumber[a]]

(* ---- the parameter setters of the topology ----------------------------- *)
(* A setter is a sequence of steps: an assignment to a field of the         *)
(* topology, or a parameter message to one actor, which may raise.          *)
FlagStep(g, v) == [kind |-> "flag", name |-> g, actor |-> "none", value |-> v]
ParStep(n, a, v) == [kind |-> "par", name |-> n, actor |-> a, value |-> v]

(* for act in actors: act.set_...(v)                                        *)
ToEach(actors, n, v) == [j \in 1..Len(actors) |-> ParStep(n, actors[j].id, v)]

(* _lf_actors, _bu_actors, _mu_actors, _gf_actors: the actors of one class  *)
ActorsOf(g) == SelectClass(Flatten(list_actors), g)

(* enableXX_file(flag): self._writeXX = flag; set_file_enable on each actor *)
EnableFile(g, flag) ==
  << FlagStep(g, flag) >> \o ToEach(ActorsOf(g), "writeDataFile", flag)

set_enable_files_all(flag) ==
  EnableFile(tag_ru, flag) \o EnableFile(tag_lf, flag) \o EnableFile(tag_bu, flag)
    \o EnableFile(tag_mu, flag) \o EnableFile(tag_gf, flag)
set_enable_files(flag) ==
  EnableFile(tag_ru, flag) \o EnableFile(tag_lf, FALSE) \o EnableFile(tag_bu, FALSE)
    \o EnableFile(tag_mu, FALSE) \o EnableFile(tag_gf, FALSE)

set_coincidence_window(w) ==
  ToEach(ActorsOf(tag_bu), "merge_window", w) \o ToEach(ActorsOf(tag_mu), "merge_window", w)

set_multiplicity(m) == ToEach(ActorsOf(tag_bu), "multiplicity", m)

(* The steps may end after n of them: all done, or the next message raised. *)
CanStopAt(steps, n) == IF n = Len(steps) THEN TRUE ELSE steps[n + 1].kind = "par"

(* The value of a parameter, or of the flags, after the first steps.        *)
LastHit(hits) == CHOOSE j \in hits : \A m \in hits : m <= j

ParamAfter(par, old, steps, upto) ==
  [a \in ActorIds |->
     LET hits == { j \in 1..upto : steps[j].kind = "par" /\ steps[j].name = par
                                    /\ steps[j].actor = a }
     IN IF hits = {} THEN old[a] ELSE steps[LastHit(hits)].value]

FlagsAfter(steps, upto) ==
  [g \in StageTags |->
     LET hits == { j \in 1..upto : steps[j].kind = "flag" /\ steps[j].name = g }
     IN IF hits = {} THEN writeFlags[g] ELSE steps[LastHit(hits)].value]

SendSteps(steps, upto) ==
  /\ writeFlags' = FlagsAfter(steps, upto)
  /\ writeDataFile' = ParamAfter("writeDataFile", writeDataFile, steps, upto)
  /\ merge_window' = ParamAfter("merge_window", merge_window, steps, upto)
  /\ multiplicity' = ParamAfter("multiplicity", multiplicity, steps, upto)

(* daq_state['coincidence_window'], daq_state['multiplicity'] of the route  *)
RouteWindow == 20
RouteMultiplicity == 1

(* The parameter messages sent before configure(): the leading ones, the    *)
(* run number, set_enable_files(save); all go through, or one of them       *)
(* raises and the later ones are not sent.                                  *)
SendSequence(raised, lead) ==
  LET acts == Flatten(list_actors)
      files == set_enable_files(daq_state.save)
  IN \E q \in 0..Len(lead), c \in 0..Len(acts), f \in 0..Len(files) :
       /\ CanStopAt(lead, q)
       /\ q < Len(lead) => c = 0
       /\ c < Len(acts) => f = 0
       /\ c = Len(acts) => CanStopAt(files, f)
       /\ (q < Len(lead) \/ c < Len(acts) \/ f < Len(files)) => raised
       /\ runNumber' = SetRunNumberUpTo(daq_state.run, c)
       /\ SendSteps(SubSeq(lead, 1, q) \o SubSeq(files, 1, f), q + f)

SendParameters(raised) == SendSequence(raised, << >>)

frameTopology == << topoVars, stateName, threads, observed, callVars >>
frameBoards == << poolVars, monVars >>

(* ---- routes/experiment.py start_run ------------------------------------ *)
NoBoardsNever(boards) == FALSE
NoBoards(boards) == Len(boards) = 0

(* if running: 404;  if len(daq_state['boards']) == 0: 404                  *)
StartRunCheck(t) ==
  /\ tpc[t] = "sr_check"
  /\ IF daq_state.running \/ NoBoards(daq_state.boards)
     THEN /\ loc' = [loc EXCEPT ![t].rv = "false"]
          /\ Leave(t)
     ELSE /\ loc' = loc
          /\ Goto(t, "sr_params")
  /\ UNCHANGED << notThreads, poolVars, mgrVars, monVars >>

(* topology.set_coincidence_window(...) ... topology.set_file_paths(...)   *)
StartRunParameters(t) ==
  /\ tpc[t] = "sr_params"
  /\ \E raised \in BOOLEAN :
       /\ SendSequence(raised, set_coincidence_window(RouteWindow)
                                 \o set_multiplicity(RouteMultiplicity))
       /\ IF raised
          THEN /\ loc' = [loc EXCEPT ![t].rv = "raised"]
               /\ Leave(t)
          ELSE /\ loc' = loc
               /\ Goto(t, "sr_configure")
  /\ UNCHANGED << listVars, stateName, threads, observed, callVars, frameBoards,
                  mgrVars >>

(* topology.configure( )                                                    *)
StartRunConfigure(t) ==
  /\ tpc[t] = "sr_configure"
  /\ Begin("configure")
  /\ Goto(t, "sr_configured")
  /\ UNCHANGED << runNumber, frameBoards, mgrVars, loc >>

(* the result of configure() is dropped; topology.start( )                  *)
StartRunStart(t) ==
  /\ tpc[t] = "sr_configured"
  /\ pc = "done"
  /\ IF ret = "raised"
     THEN /\ loc' = [loc EXCEPT ![t].rv = "raised"]
          /\ Leave(t)
          /\ UNCHANGED << frameTopology >>
     ELSE /\ Begin("start")
          /\ loc' = loc
          /\ Goto(t, "sr_started")
  /\ UNCHANGED << runNumber, frameBoards, mgrVars >>

(* the result of start() is dropped; daq_state['running'] = True; the run  *)
(* is added to the run list when saving (an error leaves the handler);     *)
(* daq_state['start_time'] = time; update_project(daq_state)                *)
StartRunFinish(t) ==
  /\ tpc[t] = "sr_started"
  /\ pc = "done"
  /\ IF ret = "raised"
     THEN /\ loc' = [loc EXCEPT ![t].rv = "raised"]
          /\ UNCHANGED << daq_state, settings >>
     ELSE \/ /\ daq_state' = [daq_state EXCEPT !.running = TRUE, !.start_time = Now]
             /\ UpdateProject(daq_state')
             /\ loc' = [loc EXCEPT ![t].rv = "true"]
          \/ /\ daq_state.save
             /\ daq_state' = [daq_state EXCEPT !.running = TRUE]
             /\ settings' = settings
             /\ loc' = [loc EXCEPT ![t].rv = "raised"]
  /\ Leave(t)
  /\ UNCHANGED << notThreads, frameBoards, test_flag >>

(* ---- DAQManager.configure_xdaq_for_run --------------------------------- *)
(* if self.test_flag or not self.topology: return True                     *)
ConfigureXdaqCheck(t) ==
  /\ tpc[t] = "cx_check"
  /\ IF test_flag
     THEN /\ loc' = [loc EXCEPT ![t].rv = "true"]
          /\ Leave(t)
     ELSE /\ loc' = loc
          /\ Goto(t, "cx_params")
  /\ UNCHANGED << notThreads, poolVars, mgrVars, monVars >>

(* the parameters; except Exception: return False                          *)
ConfigureXdaqParameters(t) ==
  /\ tpc[t] = "cx_params"
  /\ \E raised \in BOOLEAN :
       /\ SendParameters(raised)
       /\ IF raised
          THEN /\ loc' = [loc EXCEPT ![t].rv = "false"]
               /\ Leave(t)
          ELSE /\ loc' = loc
               /\ Goto(t, "cx_configure")
  /\ UNCHANGED << listVars, stateName, threads, observed, callVars, frameBoards,
                  mgrVars >>

(* self.topology.configure()                                               *)
ConfigureXdaqCall(t) ==
  /\ tpc[t] = "cx_configure"
  /\ Begin("configure")
  /\ Goto(t, "cx_wait")
  /\ UNCHANGED << runNumber, frameBoards, mgrVars, loc >>

(* return True;  except Exception: return False                            *)
ReportedUncaught(r) == r
Reported(r) == IF r = "raised" THEN "false" ELSE "true"

ConfigureXdaqReturn(t) ==
  /\ tpc[t] = "cx_wait"
  /\ pc = "done"
  /\ loc' = [loc EXCEPT ![t].rv = Reported(ret)]
  /\ Leave(t)
  /\ UNCHANGED << notThreads, frameBoards, mgrVars >>

(* ---- DAQManager.start_xdaq --------------------------------------------- *)
StartXdaqCall(t) ==
  /\ tpc[t] = "sx_check"
  /\ IF test_flag
     THEN /\ loc' = [loc EXCEPT ![t].rv = "true"]
          /\ Leave(t)
          /\ UNCHANGED << frameTopology >>
     ELSE /\ Begin("start")
          /\ loc' = loc
          /\ Goto(t, "sx_wait")
  /\ UNCHANGED << runNumber, frameBoards, mgrVars >>

StartXdaqReturn(t) ==
  /\ tpc[t] = "sx_wait"
  /\ pc = "done"
  /\ loc' = [loc EXCEPT ![t].rv = Reported(ret)]
  /\ Leave(t)
  /\ UNCHANGED << notThreads, frameBoards, mgrVars >>

(* ---- DAQManager.stop_xdaq ---------------------------------------------- *)
StopXdaqCall(t) ==
  /\ tpc[t] = "sq_check"
  /\ IF test_flag
     THEN /\ loc' = [loc EXCEPT ![t].rv = "true"]
          /\ Leave(t)
          /\ UNCHANGED << frameTopology >>
     ELSE /\ Begin("halt")
          /\ loc' = loc
          /\ Goto(t, "sq_wait")
  /\ UNCHANGED << runNumber, frameBoards, mgrVars >>

StopXdaqReturn(t) ==
  /\ tpc[t] = "sq_wait"
  /\ pc = "done"
  /\ loc' = [loc EXCEPT ![t].rv = Reported(ret)]
  /\ Leave(t)
  /\ UNCHANGED << notThreads, frameBoards, mgrVars >>

(* ---- DAQManager.prepare_run_start -------------------------------------- *)
(* Directory creation and the copy of the configuration files either go    *)
(* through or raise inside the try block; nothing of the manager changes.  *)
PrepareRunStart(t) ==
  /\ tpc[t] = "prs"
  /\ \E r \in {"true", "raised"} : loc' = [loc EXCEPT ![t].rv = Reported(r)]
  /\ Leave(t)
  /\ UNCHANGED << notThreads, frameBoards, mgrVars >>

(* ---- DAQManager.reset_xdaq --------------------------------------------- *)
(* Test mode returns True at once.  Otherwise the topology is parsed again *)
(* from the same document and the container is recreated: the actor        *)
(* processes start afresh.  Either step may raise.                         *)
ResetXdaqCheck(t) ==
  /\ tpc[t] = "rx_check"
  /\ IF test_flag
     THEN /\ loc' = [loc EXCEPT ![t].rv = "true"]
          /\ Leave(t)
          /\ UNCHANGED << stateName, runNumber >>
     ELSE \/ /\ loc' = [loc EXCEPT ![t].rv = Reported("raised")]
             /\ Leave(t)
             /\ UNCHANGED << stateName, runNumber >>
          \/ /\ stateName' = [a \in ActorIds |-> "Halted"]
             /\ runNumber' = [a \in ActorIds |-> 0]
             /\ loc' = loc
             /\ Goto(t, "rx_configure")
  /\ UNCHANGED << topoVars, threads, observed, callVars, frameBoards, mgrVars >>

(* self.topology.configure_pt()                                            *)
ResetXdaqConfigure(t) ==
  /\ tpc[t] = "rx_configure"
  /\ Begin("configure_pt")
  /\ loc' = loc
  /\ Goto(t, "rx_configured")
  /\ UNCHANGED << runNumber, frameBoards, mgrVars >>

(* self.topology.enable_pt(), unless configure_pt() raised                 *)
ResetXdaqEnable(t) ==
  /\ tpc[t] = "rx_configured"
  /\ pc = "done"
  /\ IF ret = "raised"
     THEN /\ loc' = [loc EXCEPT ![t].rv = Reported(ret)]
          /\ Leave(t)
          /\ UNCHANGED << frameTopology >>
     ELSE /\ Begin("enable_pt")
          /\ loc' = loc
          /\ Goto(t, "rx_enabled")
  /\ UNCHANGED << runNumber, frameBoards, mgrVars >>

ResetXdaqReturn(t) ==
  /\ tpc[t] = "rx_enabled"
  /\ pc = "done"
  /\ loc' = [loc EXCEPT ![t].rv = Reported(ret)]
  /\ Leave(t)
  /\ UNCHANGED << notThreads, frameBoards, mgrVars >>

(* ---- DAQManager.set_running_state, set_save_data, increment_run_number - *)
SetRunningState(t) ==
  /\ tpc[t] = "srs"
  /\ daq_state' = [daq_state EXCEPT !.running = loc[t].flag,
                                    !.start_time = IF loc[t].flag THEN Now ELSE NoTime]
  /\ UpdateProject(daq_state')
  /\ Leave(t)
  /\ UNCHANGED << notThreads, frameBoards, test_flag, loc >>

SetSaveData(t) ==
  /\ tpc[t] = "ssd"
  /\ daq_state' = [daq_state EXCEPT !.save = loc[t].flag]
  /\ UpdateProject(daq_state')
  /\ Leave(t)
  /\ UNCHANGED << notThreads, frameBoards, test_flag, loc >>

(* if self.daq_state['save'] or self.test_flag                             *)
ShouldIncrementAlways(save, test) == TRUE
ShouldIncrement(save, test) == save \/ test

IncrementRunNumber(t) ==
  /\ tpc[t] = "irn"
  /\ IF ShouldIncrement(daq_state.save, test_flag)
     THEN /\ loc' = [loc EXCEPT ![t].val = daq_state.run]
          /\ Goto(t, "irn_store")
     ELSE /\ loc' = loc
          /\ Leave(t)
  /\ UNCHANGED << notThreads, frameBoards, mgrVars >>

(* self.daq_state['run'] += 1 stores the value read plus one (the read and *)
(* the store are separate steps of the interpreter); _update_project()     *)
IncrementRunNumberStore(t) ==
  /\ tpc[t] = "irn_store"
  /\ daq_state' = [daq_state EXCEPT !.run = loc[t].val + 1]
  /\ UpdateProject(daq_state')
  /\ loc' = [loc EXCEPT ![t].val = Unavailable]
  /\ Leave(t)
  /\ UNCHANGED << notThreads, frameBoards, test_flag >>


(***************************************************************************)
(* Calls made by the request threads.                                      *)
(***************************************************************************)
Invoke(t, name, entry, b) ==
  /\ tpc[t] = "idle"
  /\ loc' = [loc EXCEPT ![t] = [NoLocals EXCEPT !.board = b, !.top = name]]
  /\ Enter(t, entry, "idle")
  /\ UNCHANGED << notThreads, poolVars, mgrVars, monVars >>

CallAddBoard(t) ==
  /\ Len(daq_state.boards) < MaxRegistry
  /\ \E b \in BoardIds : Invoke(t, "add_board", "mab_call", b)
CallRemoveBoard(t) == \E b \in BoardIds : Invoke(t, "remove_board", "mrb_find", b)
CallRefresh(t) == \E b \in BoardIds : Invoke(t, "refresh_board_connection", "mrf_find", b)
CallReadRegister(t) == \E b \in BoardIds : Invoke(t, "read_register", "rr_get", b)
CallStartMonitoring(t) == Invoke(t, "start_board_monitoring", "sm_check", NoneId)
CallStopMonitoring(t) == Invoke(t, "stop_board_monitoring", "st_check", NoneId)

CallStartRun(t) ==
  /\ callNo + 2 <= MaxCalls
  /\ Invoke(t, "start_run", "sr_check", NoneId)
CallConfigureXdaq(t) ==
  /\ callNo + 1 <= MaxCalls
  /\ Invoke(t, "configure_xdaq_for_run", "cx_check", NoneId)
CallStartXdaq(t) ==
  /\ callNo + 1 <= MaxCalls
  /\ Invoke(t, "start_xdaq", "sx_check", NoneId)
CallStopXdaq(t) ==
  /\ callNo + 1 <= MaxCalls
  /\ Invoke(t, "stop_xdaq", "sq_check", NoneId)
CallPrepareRunStart(t) == Invoke(t, "prepare_run_start", "prs", NoneId)
CallResetXdaq(t) ==
  /\ callNo + 2 <= MaxCalls
  /\ Invoke(t, "reset_xdaq", "rx_check", NoneId)
InvokeFlag(t, name, entry, f) ==
  /\ tpc[t] = "idle"
  /\ loc' = [loc EXCEPT ![t] = [NoLocals EXCEPT !.flag = f, !.top = name]]
  /\ Enter(t, entry, "idle")
  /\ UNCHANGED << notThreads, poolVars, mgrVars, monVars >>
CallSetRunningState(t) == \E f \in BOOLEAN : InvokeFlag(t, "set_running_state", "srs", f)
CallSetSaveData(t) == \E f \in BOOLEAN : InvokeFlag(t, "set_save_data", "ssd", f)
CallIncrementRunNumber(t) ==
  /\ daq_state.run < MaxRun
  /\ Invoke(t, "increment_run_number", "irn", NoneId)

StartRunSteps(t) ==
  \/ StartRunCheck(t)
  \/ StartRunParameters(t)
  \/ StartRunConfigure(t)
  \/ StartRunStart(t)
  \/ StartRunFinish(t)
ConfigureXdaqSteps(t) ==
  \/ ConfigureXdaqCheck(t)
  \/ ConfigureXdaqParameters(t)
  \/ ConfigureXdaqCall(t)
  \/ ConfigureXdaqReturn(t)
StartXdaqSteps(t) == StartXdaqCall(t) \/ StartXdaqReturn(t)
StopXdaqSteps(t) == StopXdaqCall(t) \/ StopXdaqReturn(t)
ResetXdaqSteps(t) ==
  \/ ResetXdaqCheck(t)
  \/ ResetXdaqConfigure(t)
  \/ ResetXdaqEnable(t)
  \/ ResetXdaqReturn(t)

AddBoardSteps(t) == AddBoardLock(t) \/ AddBoardOpen(t) \/ AddBoardResult(t)
RemoveBoardSteps(t) == RemoveBoardClose(t) \/ RemoveBoardPop(t)
RefreshSteps(t) == ManagerRefresh(t) \/ RefreshRemove(t) \/ RefreshAdd(t)
ReadRegisterSteps(t) == ReadRegisterLookup(t) \/ ReadRegisterAcquire(t) \/ ReadRegisterRead(t)
ManagerAddBoardSteps(t) ==
  \/ ManagerAddBoardCall(t)
  \/ ManagerAddBoardCheck(t)
  \/ ManagerAddBoardAcquire(t)
  \/ ManagerAddBoardInfo(t)
  \/ ManagerAddBoardInsert(t)
  \/ ManagerAddBoardExcept(t)
  \/ ManagerAddBoardFail(t)
ManagerRemoveBoardSteps(t) == ManagerRemoveBoardFind(t) \/ ManagerRemoveBoardPop(t)
MonitorSteps(m) == MonitorLoop(m) \/ MonitorBoard(m) \/ MonitorValue(m) \/ MonitorNext(m)
MonitoringSteps(t) ==
  \/ StartMonitoringCheck(t)
  \/ StartMonitoringStart(t)
  \/ StopMonitoringSet(t)
  \/ StopMonitoringJoin(t)

(***************************************************************************)
(* Initial states of the manager.                                          *)
(***************************************************************************)
DefaultState == [running |-> FALSE, start_time |-> 0, run |-> 0, save |-> FALSE,
                 boards |-> << >>]

MaxSessions == 2
MaxSteps == 2
MaxRefine == 1
MaxCollectors == 2
MaxLines == 2

Sessions == 1..MaxSessions
Collectors == 1..MaxCollectors
NoFile == -1

NoTuning == [board |-> NoneId, num_steps |-> 0, original_save |-> FALSE, i |-> 0,
             total_steps |-> 0, best_point |-> FALSE, refined |-> 0, j |-> 0]

(* ResolutionTuner.__init__: no session, no thread *)
InitTuner ==
  /\ current_session = NoneId
  /\ session_status = [s \in Sessions |-> "none"]
  /\ stop_event = FALSE
  /\ tuner_lock = "free"
  /\ tuning_pc = [s \in Sessions |-> "none"]
  /\ tuning_loc = [s \in Sessions |-> NoTuning]
  /\ save_before = [s \in Sessions |-> FALSE]

(* StatsManager.__init__: not collecting, no thread, no file *)
InitStats ==
  /\ collecting = FALSE
  /\ collection_thread = NoneId
  /\ collection_lock = "free"
  /\ stats_file = NoFile
  /\ current_run_number = NoFile
  /\ collection_pc = [c \in Collectors |-> "dead"]
  /\ stats_lines = [r \in 0..MaxRun |-> 0]

InitThreads ==
  /\ tpc = [t \in Threads |-> IF t \in MonThreads THEN "dead" ELSE "idle"]
  /\ stk = [t \in Threads |-> << >>]
  /\ loc = [t \in Threads |-> NoLocals]
  /\ InitTuner
  /\ InitStats

InitMonitor ==
  /\ board_status = [b \in BoardIds |-> NoStatus]
  /\ monitor_thread = "none"
  /\ monitor_stop_event = FALSE

(* A new installation: the default state, no board, no connection.         *)
InitEmptyPool ==
  /\ digitizers = [b \in BoardIds |-> NoneId]
  /\ connection_locks = [b \in BoardIds |-> NoneId]
  /\ connected = [h \in Handles |-> FALSE]
  /\ lockOwner = [l \in Locks |-> "none"]

InitBoards ==
  /\ test_flag = FALSE
  /\ daq_state = DefaultState
  /\ settings = DefaultState
  /\ InitEmptyPool
  /\ InitMonitor
  /\ InitThreads

NextTopology ==
  \/ \E o \in TransitionOps : Call(o)
  \/ ShortCircuit
  \/ FanOut
  \/ Poll
  \/ IncrementRun
  \/ Return
  \/ Deliver

Init == InitTopology /\ InitActors /\ InitCall /\ InitBoards

Next == NextTopology

Spec == Init /\ [][Next]_vars

(***************************************************************************)
(* The connection pool and the board registry, one caller at a time.       *)
(***************************************************************************)
InitIdleTopology ==
  /\ parser = DocScenario1
  /\ pt_actors = get_actors(DocScenario1).pt
  /\ ru_actors = get_actors(DocScenario1).ru
  /\ list_actors = get_actors(DocScenario1).list
  /\ InitParams
  /\ InitActors
  /\ InitCall

PoolInit ==
  /\ InitIdleTopology
  /\ test_flag \in BOOLEAN
  /\ daq_state = DefaultState
  /\ settings = DefaultState
  /\ InitEmptyPool
  /\ InitMonitor
  /\ InitThreads

PoolNext ==
  \E t \in ReqThreads :
    \/ CallAddBoard(t)
    \/ CallRemoveBoard(t)
    \/ CallRefresh(t)
    \/ CallReadRegister(t)
    \/ AddBoardSteps(t)
    \/ RemoveBoardSteps(t)
    \/ RefreshSteps(t)
    \/ ReadRegisterSteps(t)
    \/ ManagerAddBoardSteps(t)
    \/ ManagerRemoveBoardSteps(t)

PoolSpec == PoolInit /\ [][PoolNext]_vars

(***************************************************************************)
(* The board monitor: a registry loaded from the settings file, whose      *)
(* connections were opened (or not) by DAQManager.__init__, with a run in  *)
(* progress or not; a request thread starts and stops the monitoring and   *)
(* reads registers.                                                        *)
(***************************************************************************)
LoadedBoards == << 1, 2 >>

MonitorInit ==
  /\ InitIdleTopology
  /\ test_flag = FALSE
  /\ \E running \in BOOLEAN :
       daq_state = [DefaultState EXCEPT !.boards = LoadedBoards, !.running = running]
  /\ settings = daq_state
  /\ \E up \in SUBSET {1, 2} :
       /\ digitizers = [b \in BoardIds |-> IF b \in up THEN b ELSE NoneId]
       /\ connection_locks = [b \in BoardIds |-> IF b \in up THEN b ELSE NoneId]
       /\ connected = [h \in Handles |-> h \in up]
  /\ lockOwner = [l \in Locks |-> "none"]
  /\ InitMonitor
  /\ InitThreads

MonitorNextStep ==
  \/ \E t \in ReqThreads :
       \/ CallStartMonitoring(t)
       \/ CallStopMonitoring(t)
       \/ CallReadRegister(t)
       \/ MonitoringSteps(t)
       \/ ReadRegisterSteps(t)
  \/ \E m \in MonThreads :
       \/ MonitorSteps(m)
       \/ ReadRegisterSteps(m)
       \/ RefreshSteps(m)
       \/ RemoveBoardSteps(m)
       \/ AddBoardSteps(m)

MonitorSpec == MonitorInit /\ [][MonitorNextStep]_vars

(***************************************************************************)
(* Properties of the topology controller.                                  *)
(***************************************************************************)
FannedOut == pc \in {"fanout", "poll", "increment", "return"} \/ (pc = "done" /\ myThreads # {})

AllConverged == \A a \in myThreads : stateName[a] = TargetOf(op)

(* The stage of a pipeline actor in the stage list.                        *)
StageIndex(a) == CHOOSE i \in 1..Len(list_actors) : a \in Ids(list_actors[i])

PipelineActors == Ids(Flatten(list_actors))

(* The actors that have received the command of the current call.          *)
ObservedNow == { th.actor : th \in { t \in observed : ~t.stale } }

(* The actors the current call has started a thread for.                   *)
CommandedNow == { th.actor : th \in { t \in threads \cup observed : ~t.stale } }

(* No thread of an earlier call is pending or has acted during this call:  *)
(* the actors change state only on the commands of the current call.       *)
NoStaleThread == \A t \in threads \cup observed : ~t.stale

(* C1: a transition call that fanned out to N actors returns success if    *)
(* and only if all N commanded actors report the target state when it      *)
(* returns; with M<N converged it does not return success.  (Stated for    *)
(* the calls during which only their own commands reached the actors.)     *)
C1_ConvergenceBarrier ==
  [][(pc = "return" /\ pc' = "done" /\ NoStaleThread)
       => (ret' = "true" <=> AllConverged)]_vars

(* C2: in start(), an actor has received Enable only when every actor of   *)
(* every later stage has received it, and start() commands no Transport    *)
(* actor.                                                                  *)
C2_StartReverseOrder ==
  op = "start" =>
    /\ \A a \in ObservedNow : \A b \in PipelineActors :
         StageIndex(b) > StageIndex(a) => b \in ObservedNow
    /\ CommandedNow \cap Ids(pt_actors) = {}

(* C3: in configure() and halt(), the stages receive the command in the     *)
(* order of the stage list: an actor has received it only when every actor *)
(* of every earlier stage has received it.                                 *)
C3_ForwardOrder ==
  op \in {"configure", "halt"} =>
    \A a \in ObservedNow \cap PipelineActors :
      \A b \in PipelineActors : StageIndex(b) < StageIndex(a) => b \in ObservedNow


(***************************************************************************)
(* Run control over the topology: one request at a time; the topology      *)
(* calls are the ones the handlers make.                                   *)
(***************************************************************************)
RunInit ==
  /\ InitIdleTopology
  /\ test_flag \in BOOLEAN
  /\ \E boards \in {<< >>, << 1 >>}, save \in BOOLEAN :
       daq_state = [DefaultState EXCEPT !.boards = boards, !.save = save]
  /\ settings = daq_state
  /\ InitEmptyPool
  /\ InitMonitor
  /\ InitThreads

TopologySteps == ShortCircuit \/ FanOut \/ Poll \/ Return \/ Deliver

(***************************************************************************)
(* The run flags of the manager, in both modes.                            *)
(***************************************************************************)
FlagsInit ==
  /\ InitIdleTopology
  /\ test_flag \in BOOLEAN
  /\ \E boards \in {<< >>, << 1 >>} :
       daq_state = [DefaultState EXCEPT !.boards = boards]
  /\ settings = daq_state
  /\ InitEmptyPool
  /\ InitMonitor
  /\ InitThreads

FlagsNext ==
  \E t \in ReqThreads :
    \/ CallSetRunningState(t)
    \/ CallSetSaveData(t)
    \/ CallIncrementRunNumber(t)
    \/ SetRunningState(t)
    \/ SetSaveData(t)
    \/ IncrementRunNumber(t)
    \/ IncrementRunNumberStore(t)

FlagsSpec == FlagsInit /\ [][FlagsNext]_vars

(***************************************************************************)
(* The monitor thread is scheduled, and it gets a lock that is free again  *)
(* and again; a request thread inside a hardware call may stay there.      *)
(***************************************************************************)
MonitorThreadStep ==
  \E m \in MonThreads :
    \/ MonitorSteps(m)
    \/ ReadRegisterSteps(m)
    \/ RefreshSteps(m)
    \/ RemoveBoardSteps(m)
    \/ AddBoardSteps(m)

MonitorFairSpec == MonitorInit /\ [][MonitorNextStep]_vars /\ SF_vars(MonitorThreadStep)

(***************************************************************************)
(* Claims about the board monitor and the connection pool.                 *)
(***************************************************************************)
StartsMonitoring == \E t \in Threads : tpc[t] = "sm_start" /\ tpc'[t] # "sm_start"

(* C4: once the monitor has set failed for a board, failed stays set       *)
(* whatever the register returns later; only the reset made by             *)
(* start_board_monitoring clears it.                                       *)
C4_StickyFailure ==
  [][\A b \in BoardIds :
       (board_status[b].failed /\ ~board_status'[b].failed) => StartsMonitoring]_vars

(* The monitor comes back to a board it has marked failed.                 *)
C4_Witness ==
  \E m \in MonThreads :
    /\ tpc[m] = "m_board"
    /\ loc[m].i <= Len(daq_state.boards)
    /\ board_status[daq_state.boards[loc[m].i]].failed

ReturnsFromAddBoard(t) == tpc[t] = "ab_result" /\ tpc'[t] # "ab_result"

OnlyBoardOf(f, b) == f[b] # NoneId /\ \A c \in BoardIds \ {b} : f[c] # f[b]

(* C5: add_board opens at most three times; it gives up only after the     *)
(* third failure; if an attempt connected it returns True, and then the    *)
(* pool holds one connected handle and one lock for the board.             *)
C5_AddBoardRetries ==
  [][\A t \in Threads :
       /\ tpc[t] = "ab_open" => loc[t].attempt < AttemptLimit
       /\ ReturnsFromAddBoard(t) =>
            /\ loc[t].attempt <= AttemptLimit
            /\ (loc[t].dgtz # NoneId /\ connected[loc[t].dgtz]) => loc'[t].rv = "true"
            /\ (loc'[t].rv = "false" /\ ~test_flag) => loc[t].attempt = AttemptLimit
            /\ loc'[t].rv = "true" =>
                 /\ OnlyBoardOf(digitizers', loc[t].board)
                 /\ connected'[digitizers'[loc[t].board]]
                 /\ OnlyBoardOf(connection_locks', loc[t].board)]_vars

(* add_board has returned True after two failures and a third attempt.     *)
C5_Witness ==
  \E t \in Threads :
    /\ tpc[t] = "mab_check"
    /\ loc[t].attempt = AttemptLimit
    /\ loc[t].rv = "true"
    /\ digitizers[loc[t].board] # NoneId
    /\ connected[digitizers[loc[t].board]]

(* C6: when the three attempts of add_board have failed it returns False   *)
(* and every board id has both a handle and a lock in the pool, or         *)
(* neither, whatever the pool held before.                                 *)
C6_NoPartialState ==
  [][\A t \in Threads :
       (ReturnsFromAddBoard(t) /\ loc'[t].rv = "false" /\ loc[t].attempt = AttemptLimit) =>
         \A b \in BoardIds : (digitizers'[b] # NoneId) <=> (connection_locks'[b] # NoneId)]_vars

InReadRegister(t) == tpc[t] \in {"rr_get", "rr_acquire", "rr_read"}

(* C10: a call of read_register made by the monitor thread returns, also   *)
(* while another caller keeps the lock of the board.                       *)
C10_ReadRegisterReturns ==
  \A m \in MonThreads : InReadRegister(m) ~> ~InReadRegister(m)


(***************************************************************************)
(* Claims about run control.                                               *)
(***************************************************************************)
IncrementReturns(t) == tpc[t] \in {"irn", "irn_store"} /\ tpc'[t] = "idle"

StartOpReturns(t) ==
  /\ tpc[t] \in {"sr_configured", "sr_started", "cx_wait", "sx_wait"}
  /\ tpc'[t] = "idle"

(* C8: when the configure() or start() of the topology has returned False  *)
(* with an actor short of the target, or has raised, the start operation   *)
(* reports a failure and running, start_time and run are as before.        *)
C8_FailFast ==
  [][\A t \in ReqThreads :
       (StartOpReturns(t) /\ (ret = "raised" \/ (ret = "false" /\ ~AllConverged))) =>
         /\ loc'[t].rv # "true"
         /\ RunState' = RunState]_vars

StartRunDecides(t) == tpc[t] = "sr_check" /\ tpc'[t] # "sr_check"

(* C9: start_run with no board in the registry returns a failure at once:  *)
(* no parameter is set, no command thread is started, no topology call is  *)
(* made, and the state and the settings file are unchanged.                *)
C9_EmptyRegistry ==
  [][\A t \in ReqThreads :
       (StartRunDecides(t) /\ Len(daq_state.boards) = 0) =>
         /\ tpc'[t] = "idle"
         /\ loc'[t].rv = "false"
         /\ UNCHANGED << daq_state, settings, runNumber, threads, observed, stateName,
                         pc, callNo >>]_vars

(* start_run has returned its failure for an empty registry.               *)
C9_Witness ==
  \E t \in ReqThreads :
    /\ tpc[t] = "idle"
    /\ loc[t].top = "start_run"
    /\ loc[t].rv = "false"
    /\ Len(daq_state.boards) = 0
    /\ ~daq_state.running

(***************************************************************************)
(* The status of the DAQ read from the actors (topology.get_daq_status,    *)
(* DAQManager.is_running), for actors in any state.                        *)
(***************************************************************************)
TransportStates == {"Halted", "Ready", "Enabled"}
PipelineStates == {"Halted", "Configured", "Running", "Failed"}

(* for actDaq in self._ru_actors: the if / elif chain on its status        *)
RECURSIVE RuStatus(_, _, _)
RuStatus(rus, st, acc) ==
  IF rus = << >> THEN acc
  ELSE LET s == st[Head(rus).id]
           next == IF s = "Configured" THEN "Configured"
                   ELSE IF s = "Running" THEN "Running"
                   ELSE IF s = "Halted" THEN "Initialized"
                   ELSE acc
       IN RuStatus(Tail(rus), st, next)

(* for act in self._pt_actors: Halted -> Unknown; Enabled -> the readout   *)
(* units, from Initialized                                                 *)
RECURSIVE PtStatus(_, _, _, _)
PtStatus(pts, rus, st, acc) ==
  IF pts = << >> THEN acc
  ELSE LET s == st[Head(pts).id]
           next == IF s = "Halted" THEN "Unknown"
                   ELSE IF s = "Enabled" THEN RuStatus(rus, st, "Initialized")
                   ELSE acc
       IN PtStatus(Tail(pts), rus, st, next)

get_daq_status == PtStatus(pt_actors, ru_actors, stateName, "Unknown")

(* A call of get_daq_status by a client: its value, or the transport error *)
(* of a check_status().                                                    *)
GetDaqStatus ==
  /\ pc \in {"idle", "done"}
  /\ op' = "get_daq_status"
  /\ pc' = "done"
  /\ ret' \in {get_daq_status, "raised"}
  /\ UNCHANGED << topoVars, actorVars, callNo, idx, k, allFlag, actorOK, nbActors,
                  polls, myThreads, boardVars >>

(* ---- DAQManager.is_running --------------------------------------------- *)
(* if not self.test_flag and self.topology: running = (status == "Running") *)
(* (False when get_daq_status raises); return self.daq_state['running']     *)
IsRunning(t) ==
  /\ tpc[t] = "ir"
  /\ IF test_flag
     THEN daq_state' = daq_state
     ELSE \E status \in {get_daq_status, "raised"} :
            daq_state' = [daq_state EXCEPT !.running = (status = "Running")]
  /\ loc' = [loc EXCEPT ![t].rv = IF daq_state'.running THEN "true" ELSE "false"]
  /\ Leave(t)
  /\ UNCHANGED << notThreads, frameBoards, test_flag, settings >>

CallIsRunning(t) == Invoke(t, "is_running", "ir", NoneId)

(* The run-control specification: the start_run route and the calls it     *)
(* makes, over the topology.                                               *)
RunNext ==
  \/ \E t \in ReqThreads :
       \/ CallStartRun(t)
       \/ CallConfigureXdaq(t)
       \/ CallStartXdaq(t)
       \/ StartRunSteps(t)
       \/ ConfigureXdaqSteps(t)
       \/ StartXdaqSteps(t)
  \/ TopologySteps

RunSpec == RunInit /\ [][RunNext]_vars

(* The manager-level calls of a run, one after the other, in both modes.   *)
ManagerInit ==
  /\ InitIdleTopology
  /\ test_flag \in BOOLEAN
  /\ daq_state = [DefaultState EXCEPT !.boards = << 1 >>]
  /\ settings = daq_state
  /\ InitEmptyPool
  /\ InitMonitor
  /\ InitThreads

ManagerNext ==
  \/ \E t \in ReqThreads :
       \/ CallPrepareRunStart(t)
       \/ PrepareRunStart(t)
       \/ CallConfigureXdaq(t)
       \/ ConfigureXdaqSteps(t)
       \/ CallStartXdaq(t)
       \/ StartXdaqSteps(t)
       \/ CallStopXdaq(t)
       \/ StopXdaqSteps(t)
       \/ CallResetXdaq(t)
       \/ ResetXdaqSteps(t)
       \/ CallSetRunningState(t)
       \/ SetRunningState(t)
  \/ TopologySteps

ManagerSpec == ManagerInit /\ [][ManagerNext]_vars

StatusInit ==
  /\ InitTopology
  /\ stateName \in [ActorIds -> TransportStates \cup PipelineStates]
  /\ \A a \in ActorIds :
       IF a \in Ids(pt_actors) THEN stateName[a] \in TransportStates
       ELSE IF a \in PipelineActors THEN stateName[a] \in PipelineStates
       ELSE stateName[a] = "Halted"
  /\ runNumber = [a \in ActorIds |-> 0]
  /\ threads = {}
  /\ observed = {}
  /\ InitCall
  /\ InitBoards

StatusNext ==
  \/ GetDaqStatus
  \/ \E t \in ReqThreads : CallIsRunning(t) \/ IsRunning(t)

StatusSpec == StatusInit /\ [][StatusNext]_vars

AnyReadout(s) == \E j \in 1..Len(ru_actors) : stateName[ru_actors[j].id] = s

TransportReports(s) == \A j \in 1..Len(pt_actors) : stateName[pt_actors[j].id] = s

(* C11: the value of get_daq_status is Unknown when the Transport actors   *)
(* report Halted; when they report Enabled it is Configured if a readout   *)
(* unit is Configured, else Running if one is Running, else Initialized if *)
(* one is Halted, whatever the order of the readout units.                 *)
C11_FirstRuleWins ==
  (op = "get_daq_status" /\ pc = "done" /\ ret # "raised") =>
    /\ TransportReports("Halted") => ret = "Unknown"
    /\ TransportReports("Enabled") =>
         /\ AnyReadout("Configured") => ret = "Configured"
         /\ (~AnyReadout("Configured") /\ AnyReadout("Running")) => ret = "Running"
         /\ (~AnyReadout("Configured") /\ ~AnyReadout("Running") /\ AnyReadout("Halted"))
              => ret = "Initialized"

(* C12: a halt() that has fanned out and polled reaches its return only    *)
(* through the increment: every actor of the stages gets the run number of *)
(* the first readout unit plus one, whatever the count of converged actors *)
(* (the value halt() returns).                                             *)
C12_HaltIncrements ==
  [][(op = "halt" /\ pc # "return" /\ pc' = "return") =>
       \A a \in PipelineActors : runNumber'[a] = runNumber[ru_actors[1].id] + 1]_vars

(* halt() has returned False and the run number was incremented.           *)
C12_Witness ==
  /\ op = "halt"
  /\ pc = "done"
  /\ ret = "false"
  /\ \A a \in PipelineActors : runNumber[a] = 1

MonitorIssues(m, b) ==
  \/ tpc[m] = "m_board" /\ tpc'[m] = "rr_get" /\ loc'[m].board = b
  \/ tpc[m] = "m_value" /\ tpc'[m] = "mrf_find" /\ loc[m].board = b

(* C13: the monitor starts a register read or a connection refresh for a   *)
(* board only while no non-zero value is recorded for it: after a non-zero *)
(* read the board is passed over in every later sweep, until               *)
(* start_board_monitoring resets the status.                               *)
C13_NoPollAfterFailure ==
  [][\A m \in MonThreads : \A b \in BoardIds :
       MonitorIssues(m, b) =>
         (board_status[b].last_value = 0 /\ ~board_status[b].failed)]_vars

(* A later sweep: the monitor has read the second board and is back at the *)
(* first one, which has a non-zero value recorded.                         *)
C13_Witness ==
  \E m \in MonThreads :
    /\ tpc[m] = "m_board"
    /\ loc[m].i = 1
    /\ Len(daq_state.boards) = 2
    /\ loc[m].board = daq_state.boards[2]
    /\ board_status[daq_state.boards[1]].last_value # 0

(* Every thread is scheduled and every hardware call returns: a call that  *)
(* was started goes on to its end.                                         *)
RequestThreadStep ==
  \E t \in ReqThreads : MonitoringSteps(t) \/ ReadRegisterSteps(t)

MonitorLiveSpec ==
  /\ MonitorInit
  /\ [][MonitorNextStep]_vars
  /\ SF_vars(MonitorThreadStep)
  /\ SF_vars(RequestThreadStep)

(* C14: when the monitor has marked a board failed during a run, the run   *)
(* is eventually stopped and a new one started with the run number         *)
(* advanced by one.                                                        *)
C14_RestartAfterFailure ==
  \A b \in BoardIds :
    (board_status[b].failed /\ daq_state.running) ~> (daq_state.run > 0)

(***************************************************************************)
(* Two request threads of the server in the manager at the same time       *)
(* (serve(app, threads=10)).                                               *)
(***************************************************************************)
WorkersNext ==
  \E t \in Threads \ MonThreads :
    \/ CallSetRunningState(t)
    \/ CallSetSaveData(t)
    \/ CallIncrementRunNumber(t)
    \/ SetRunningState(t)
    \/ SetSaveData(t)
    \/ IncrementRunNumber(t)
    \/ IncrementRunNumberStore(t)

WorkersSpec == FlagsInit /\ [][WorkersNext]_vars

(* C15: concurrent calls of the mutators act as if one ran after the       *)
(* other; no increment is lost: every increment_run_number that stores     *)
(* leaves the run number one above the value it had just before.           *)
C15_Serialized ==
  [][\A t \in Threads \ MonThreads :
       (tpc[t] = "irn_store" /\ tpc'[t] # "irn_store") =>
         daq_state'.run = daq_state.run + 1]_vars

(* The thread is inside a call on the digitizer object h.                  *)
OperatesOn(t, h) == tpc[t] \in {"rr_read", "mab_info"} /\ loc[t].dgtz = h

Closes(t, h) ==
  /\ tpc[t] = "rb_close"
  /\ tpc'[t] # "rb_close"
  /\ digitizers[loc[t].board] = h

(* C16: no two threads operate on the same digitizer object at the same    *)
(* time: an object is never closed while another thread, holding the lock  *)
(* of the board, is inside a call on it.                                   *)
C16_HandleUnderMutex ==
  [][\A t \in Threads : \A h \in Handles :
       Closes(t, h) => \A u \in Threads \ {t} : ~OperatesOn(u, h)]_vars

(* C17: the board registry is in ascending order of the ids, after every   *)
(* add_board and remove_board.                                             *)
C17_RegistrySorted ==
  \A i \in 1..Len(daq_state.boards) : \A j \in 1..Len(daq_state.boards) :
    i < j => daq_state.boards[i] <= daq_state.boards[j]

(* add_board has put board 1 in front of board 2.                          *)
C17_Witness ==
  \E t \in ReqThreads :
    /\ tpc[t] = "idle"
    /\ loc[t].top = "add_board"
    /\ loc[t].board = 1
    /\ loc[t].rv = "true"
    /\ daq_state.boards = << 1, 2 >>

(* C18: when no manager method is in progress, the settings file holds the *)
(* state the manager has in memory.                                        *)
C18_PersistedAfterMutation ==
  (\A t \in Threads \ MonThreads : tpc[t] = "idle") => settings = daq_state

(***************************************************************************)
(* C19: a manager-level call never propagates an exception to its caller   *)
(* and returns a success/failure result, also when the topology call or    *)
(* the file operation inside it raised.  Checked for the calls of a run:   *)
(* prepare_run_start, configure_xdaq_for_run, start_xdaq, stop_xdaq,       *)
(* reset_xdaq and set_running_state.                                       *)
(***************************************************************************)
ManagerCalls ==
  {"prepare_run_start", "configure_xdaq_for_run", "start_xdaq", "stop_xdaq",
   "reset_xdaq", "set_running_state"}

ManagerCallReturns(t) ==
  /\ loc[t].top \in ManagerCalls
  /\ tpc[t] # "idle"
  /\ tpc'[t] = "idle"

InRegistry(b) == \E j \in 1..Len(daq_state.boards) : daq_state.boards[j] = b

RemoveUnknownSteps(t) ==
  /\ loc[t].top = "remove_board"
  /\ tpc[t] # "idle"
  /\ tpc'[t] # tpc[t]
  /\ ~InRegistry(loc[t].board)

C20_RemoveUnknownRejected ==
  [][\A t \in ReqThreads :
       RemoveUnknownSteps(t) =>
         /\ tpc'[t] = "idle"
         /\ loc'[t].rv = "false"
         /\ UNCHANGED << daq_state, settings, poolVars >>]_vars

(* remove_board has returned False for an id the non-empty registry does   *)
(* not hold.                                                               *)
C20_Witness ==
  /\ tpc["req"] = "idle"
  /\ loc["req"].top = "remove_board"
  /\ loc["req"].rv = "false"
  /\ Len(daq_state.boards) > 0
  /\ ~InRegistry(loc["req"].board)

(***************************************************************************)
(* The parameter setters of the topology, called one after the other by a  *)
(* request thread, from any setting of the actors' file writing.           *)
(***************************************************************************)
ParamValues == 0..MaxParam

InvokeValue(t, name, entry, v) ==
  /\ tpc[t] = "idle"
  /\ loc' = [loc EXCEPT ![t] = [NoLocals EXCEPT !.val = v, !.top = name]]
  /\ Enter(t, entry, "idle")
  /\ UNCHANGED << notThreads, poolVars, mgrVars, monVars >>

CallSetEnableFiles(t) == \E f \in BOOLEAN : InvokeFlag(t, "set_enable_files", "sef", f)
CallSetCoincidenceWindow(t) ==
  \E w \in ParamValues : InvokeValue(t, "set_coincidence_window", "scw", w)
CallSetMultiplicity(t) ==
  \E m \in ParamValues : InvokeValue(t, "set_multiplicity", "smu", m)

(* The steps of a setter in order; it returns, or a message raises.        *)
RunSetter(t, steps) ==
  /\ \E n \in 0..Len(steps) :
       /\ CanStopAt(steps, n)
       /\ SendSteps(steps, n)
       /\ loc' = [loc EXCEPT ![t].rv = IF n = Len(steps) THEN "returned" ELSE "raised"]
  /\ Leave(t)
  /\ UNCHANGED << listVars, actorVars, callVars, poolVars, mgrVars, monVars >>

SetEnableFiles(t) ==
  /\ tpc[t] = "sef"
  /\ RunSetter(t, set_enable_files(loc[t].flag))

SetCoincidenceWindow(t) ==
  /\ tpc[t] = "scw"
  /\ RunSetter(t, set_coincidence_window(loc[t].val))

SetMultiplicity(t) ==
  /\ tpc[t] = "smu"
  /\ RunSetter(t, set_multiplicity(loc[t].val))

ParamsInit ==
  /\ \E doc \in {DocTwoByTwo, DocFullPipeline} :
       /\ parser = doc
       /\ pt_actors = get_actors(doc).pt
       /\ ru_actors = get_actors(doc).ru
       /\ list_actors = get_actors(doc).list
  /\ writeFlags = [g \in StageTags |-> FALSE]
  /\ writeDataFile \in [ActorIds -> BOOLEAN]
  /\ \A a \in ActorIds \ Ids(Flatten(list_actors)) : writeDataFile[a] = FALSE
  /\ merge_window = [a \in ActorIds |-> 0]
  /\ multiplicity = [a \in ActorIds |-> 0]
  /\ InitActors
  /\ InitCall
  /\ test_flag = FALSE
  /\ daq_state = DefaultState
  /\ settings = DefaultState
  /\ InitEmptyPool
  /\ InitMonitor
  /\ InitThreads

ParamsNext ==
  \E t \in ReqThreads :
    \/ CallSetEnableFiles(t)
    \/ SetEnableFiles(t)
    \/ CallSetCoincidenceWindow(t)
    \/ SetCoincidenceWindow(t)
    \/ CallSetMultiplicity(t)
    \/ SetMultiplicity(t)

ParamsSpec == ParamsInit /\ [][ParamsNext]_vars

(***************************************************************************)
(* C21: after set_enable_files(flag), for either flag and any prior state, *)
(* file writing is flag on every ReadoutUnit actor and disabled on every   *)
(* actor of every other stage.                                             *)
(***************************************************************************)
SetterReturns(t, name) ==
  /\ loc[t].top = name
  /\ tpc[t] # "idle"
  /\ tpc'[t] = "idle"
  /\ loc'[t].rv = "returned"

OtherStageActors == Ids(Flatten(list_actors)) \ Ids(ru_actors)

C21_OnlyReadoutWrites ==
  [][\A t \in ReqThreads :
       SetterReturns(t, "set_enable_files") =>
         /\ \A a \in Ids(ru_actors) : writeDataFile'[a] = loc[t].flag
         /\ \A a \in OtherStageActors : writeDataFile'[a] = FALSE]_vars

(* set_enable_files(True) has returned on a topology with other stages:    *)
(* the readout unit writes, the others do not.                             *)
C21_Witness ==
  /\ tpc["req"] = "idle"
  /\ loc["req"].top = "set_enable_files"
  /\ loc["req"].rv = "returned"
  /\ loc["req"].flag
  /\ Cardinality(OtherStageActors) >= 4
  /\ \A a \in Ids(ru_actors) : writeDataFile[a]
  /\ \A a \in OtherStageActors : ~writeDataFile[a]

(***************************************************************************)
(* C22: set_coincidence_window(w) and set_multiplicity(m) each send the    *)
(* parameter to every BuilderUnit actor and to every MergerUnit actor, and *)
(* to no actor of any other stage.                                         *)
(***************************************************************************)
BuilderAndMerger == Ids(ActorsOf(tag_bu)) \cup Ids(ActorsOf(tag_mu))

C22_BuilderAndMerger ==
  [][\A t \in ReqThreads :
       /\ SetterReturns(t, "set_coincidence_window") =>
            /\ \A a \in BuilderAndMerger : merge_window'[a] = loc[t].val
            /\ \A a \in ActorIds \ BuilderAndMerger : merge_window'[a] = merge_window[a]
       /\ SetterReturns(t, "set_multiplicity") =>
            /\ \A a \in BuilderAndMerger : multiplicity'[a] = loc[t].val
            /\ \A a \in ActorIds \ BuilderAndMerger : multiplicity'[a] = multiplicity[a]]_vars

(***************************************************************************)
(* Loading a topology: a constructed topology (empty lists) whose document *)
(* is any sequence of up to MaxDoc applications; load_topology() fills the *)
(* lists.  The identities only tell the applications apart.                *)
(***************************************************************************)
ClassTags == {tag_pt, tag_ru, tag_lf, tag_bu, tag_mu, tag_gf}
DocIds == << "ru0", "ru1", "bu0", "bu1" >>
Instances == {0, 1}

LoadDocuments ==
  UNION { { [j \in 1..n |-> App(c[j], i[j], DocIds[j])] :
              c \in [1..n -> ClassTags], i \in [1..n -> Instances] } : n \in 1..MaxDoc }

LoadInit ==
  /\ parser \in LoadDocuments
  /\ pt_actors = << >>
  /\ ru_actors = << >>
  /\ list_actors = << >>
  /\ InitParams
  /\ InitActors
  /\ InitCall
  /\ InitBoards

(* load_topology(): get_number_of_actors(); get_actors()                   *)
LoadTopology ==
  /\ op = "none"
  /\ op' = "load_topology"
  /\ pc' = "done"
  /\ pt_actors' = get_actors(parser).pt
  /\ ru_actors' = get_actors(parser).ru
  /\ list_actors' = get_actors(parser).list
  /\ UNCHANGED << parser, svcVars, paramVars, actorVars, callNo, idx, k, allFlag, actorOK,
                  nbActors, polls, myThreads, ret, boardVars >>

LoadSpec == LoadInit /\ [][LoadTopology]_vars

(***************************************************************************)
(* C23: after load(), every stage's actors are sorted by instance          *)
(* ascending with ties kept in load order, and the stage list holds only   *)
(* the stages with at least one actor, in the pipeline order ReadoutUnit,  *)
(* LocalFilter, BuilderUnit, MergerUnit, GlobalFilter.                     *)
(***************************************************************************)
PipelineOrder == << tag_ru, tag_lf, tag_bu, tag_mu, tag_gf >>

Declared(g) == { j \in 1..Len(parser) : parser[j].class = g }

HasActors(g) == Declared(g) # {}

PositionOf(a) == CHOOSE j \in 1..Len(parser) : parser[j] = a

SortedStable(stage) ==
  \A i, j \in 1..Len(stage) :
    i < j => \/ stage[i].instance < stage[j].instance
             \/ /\ stage[i].instance = stage[j].instance
                /\ PositionOf(stage[i]) < PositionOf(stage[j])

HoldsStage(stage, g) ==
  /\ Len(stage) = Cardinality(Declared(g))
  /\ \A j \in Declared(g) : \E i \in 1..Len(stage) : stage[i] = parser[j]

Loaded == op = "load_topology" /\ pc = "done"

C23_SortedNonEmptyStages ==
  Loaded =>
    LET present == SelectSeq(PipelineOrder, HasActors)
    IN /\ Len(list_actors) = Len(present)
       /\ \A s \in 1..Len(list_actors) :
            /\ HoldsStage(list_actors[s], present[s])
            /\ SortedStable(list_actors[s])
       /\ HoldsStage(pt_actors, tag_pt) /\ SortedStable(pt_actors)

(* A loaded topology of two stages, one of them with two actors that the   *)
(* document declares in the other order.                                   *)
C23_Witness ==
  /\ Loaded
  /\ Len(list_actors) = 2
  /\ \E s \in 1..2 : /\ Len(list_actors[s]) = 2
                     /\ PositionOf(list_actors[s][1]) > PositionOf(list_actors[s][2])

(***************************************************************************)
(* C24: a transition call that has begun a fan-out does not return, with   *)
(* any result, until every actor of every targeted stage has reported the  *)
(* target state.  An actor that has reported the target state is still in  *)
(* it when the call returns, as long as only the commands of this call     *)
(* reach the actors: so at the return every commanded actor is in the      *)
(* target state.                                                           *)
(***************************************************************************)
C24_BarrierReturn ==
  [][(pc = "return" /\ pc' = "done" /\ NoStaleThread) => AllConverged]_vars

(***************************************************************************)
(* C25: in configure() and halt() (forward order) and in start() (reverse  *)
(* order) no actor of the next stage is sent its command before every      *)
(* actor of the previously commanded stage reports the target state: once  *)
(* an actor has been sent the command of the call, every actor of the      *)
(* stages commanded before its stage is in the target state.               *)
(***************************************************************************)
CommandedBefore(a, b) ==
  IF op = "start" THEN StageIndex(a) > StageIndex(b)
  ELSE StageIndex(a) < StageIndex(b)

C25_StageBarrier ==
  (op \in {"configure", "halt", "start"} /\ NoStaleThread) =>
    \A b \in CommandedNow \cap PipelineActors :
      \A a \in PipelineActors :
        CommandedBefore(a, b) => stateName[a] = TargetOf(op)

(***************************************************************************)
(* C26: whenever start_board_monitoring returns, the health record of      *)
(* every registered board is {failed = false, last_value = 0}, whatever    *)
(* the records were before and whatever start/stop calls came earlier.     *)
(***************************************************************************)
StartMonitoringReturns(t) ==
  /\ loc[t].top = "start_board_monitoring"
  /\ tpc[t] # "idle"
  /\ tpc'[t] = "idle"

C26_ResetOnStart ==
  [][\A t \in ReqThreads :
       StartMonitoringReturns(t) =>
         \A j \in 1..Len(daq_state.boards) :
           /\ ~board_status'[daq_state.boards[j]].failed
           /\ board_status'[daq_state.boards[j]].last_value = 0]_vars

(***************************************************************************)
(* Two request threads that start and stop the board monitoring at the     *)
(* same time (the routes are served by a threaded server).                 *)
(***************************************************************************)
PairThreads == {"req", "req2"}

(* no board is registered: a poll of the monitor is an empty loop          *)
MonitorPairInit ==
  /\ InitIdleTopology
  /\ test_flag = FALSE
  /\ \E running \in BOOLEAN :
       daq_state = [DefaultState EXCEPT !.running = running]
  /\ settings = daq_state
  /\ digitizers = [b \in BoardIds |-> NoneId]
  /\ connection_locks = [b \in BoardIds |-> NoneId]
  /\ connected = [h \in Handles |-> FALSE]
  /\ lockOwner = [l \in Locks |-> "none"]
  /\ InitMonitor
  /\ InitThreads

MonitorPairNext ==
  \/ \E t \in PairThreads :
       \/ CallStartMonitoring(t)
       \/ CallStopMonitoring(t)
       \/ MonitoringSteps(t)
  \/ \E m \in MonThreads : MonitorLoop(m) \/ MonitorBoard(m)

MonitorPairSpec == MonitorPairInit /\ [][MonitorPairNext]_vars

AliveMonitors == {m \in MonThreads : tpc[m] # "dead"}

(* C27: at most one health-monitor thread is alive at any time, under any  *)
(* interleaving of start_board_monitoring and stop_board_monitoring calls. *)
C27_OneMonitorThread == Cardinality(AliveMonitors) <= 1

(* C28: after start_board_monitoring returns, whatever start/stop calls    *)
(* came before, a monitor thread is alive with the stop flag clear (and    *)
(* polls the boards until stop_board_monitoring is next called): here, the *)
(* state in which the call returns.                                        *)
C28_MonitoredAfterStart ==
  [][\A t \in ReqThreads :
       StartMonitoringReturns(t) =>
         /\ IsAlive(monitor_thread)'
         /\ ~monitor_stop_event']_vars

(***************************************************************************)
(* The board mutexes: the monitor thread polls the boards while a request  *)
(* thread adds boards, refreshes connections and reads registers.          *)
(***************************************************************************)
(* one board in the registry, its connection opened or not, a run going on *)
(* and start_board_monitoring has returned                                 *)
FirstBoards == << 1 >>

LocksInit ==
  /\ InitIdleTopology
  /\ test_flag = FALSE
  /\ daq_state = [DefaultState EXCEPT !.boards = FirstBoards, !.running = TRUE]
  /\ settings = daq_state
  /\ \E up \in SUBSET {1} :
       /\ digitizers = [b \in BoardIds |-> IF b \in up THEN b ELSE NoneId]
       /\ connection_locks = [b \in BoardIds |-> IF b \in up THEN b ELSE NoneId]
       /\ connected = [h \in Handles |-> h \in up]
  /\ lockOwner = [l \in Locks |-> "none"]
  /\ board_status = ResetStatuses([b \in BoardIds |-> NoStatus], FirstBoards)
  /\ monitor_thread = "mon"
  /\ monitor_stop_event = FALSE
  /\ tpc = [t \in Threads |-> IF t = "mon" THEN "m_loop"
                               ELSE IF t \in MonThreads THEN "dead" ELSE "idle"]
  /\ stk = [t \in Threads |-> << >>]
  /\ loc = [t \in Threads |-> NoLocals]
  /\ InitTuner
  /\ InitStats

(* the request thread adds a second board while the monitor polls          *)
LocksNext ==
  \/ \E t \in ReqThreads :
       \/ (daq_state.boards = FirstBoards /\ CallAddBoard(t))
       \/ ManagerAddBoardSteps(t)
       \/ ManagerAddBoardUnlock(t)
       \/ AddBoardSteps(t)
       \/ RemoveBoardSteps(t)
  \/ MonitorThreadStep

LocksSpec == LocksInit /\ [][LocksNext]_vars

HeldBy(t) == {l \in Locks : lockOwner[l] = t}

(* C29: no thread ever holds two board mutexes at the same time: the       *)
(* monitor thread, refresh_board, add_board and read_register each hold at *)
(* most one board mutex at any moment.                                     *)
C29_OneMutexPerThread == \A t \in Threads : Cardinality(HeldBy(t)) <= 1

(* C29 witness: the monitor thread holds the mutex of a board inside       *)
(* read_register while the request thread holds the mutex of the board it  *)
(* is adding.                                                              *)
C29_Witness ==
  /\ tpc["mon"] = "rr_read"
  /\ Cardinality(HeldBy("mon")) = 1
  /\ tpc["req"] = "mab_info"
  /\ Cardinality(HeldBy("req")) = 1

(***************************************************************************)
(* C30: when the read of the liveness register fails for a board in a      *)
(* monitor poll, the monitor makes exactly one refresh_board attempt for   *)
(* that board in that poll, leaves the board's failed flag and last_value  *)
(* as they are, and goes on with the remaining boards of the iteration.    *)
(***************************************************************************)
ReadFailed(m) == tpc[m] = "m_value" /\ loc[m].val = Unavailable
Refreshing(m) == stk[m] # << >> /\ stk[m][Len(stk[m])] = "m_next"
Steps(m) == << tpc[m], stk[m], loc[m] >>' # << tpc[m], stk[m], loc[m] >>

C30_OneRefreshOnReadFailure ==
  [][\A m \in MonThreads :
       \* the failed read: refresh_board_connection is called for the board
       /\ (ReadFailed(m) /\ Steps(m)) =>
            /\ tpc'[m] = "mrf_find"
            /\ stk'[m] = << "m_next" >> \o stk[m]
            /\ loc'[m].board = daq_state.boards[loc[m].i]
            /\ board_status' = board_status
       \* it is the only way into a refresh,
       /\ (tpc[m] # "mrf_find" /\ tpc'[m] = "mrf_find") => ReadFailed(m)
       \* whose steps leave the record of the board alone,
       /\ ((Refreshing(m) \/ tpc[m] = "m_next") /\ Steps(m)) =>
            board_status'[loc[m].board] = board_status[loc[m].board]
       \* and after it the poll goes on with the board that follows
       /\ (tpc[m] = "m_next" /\ Steps(m)) =>
            /\ tpc'[m] = "m_board"
            /\ loc'[m].i = loc[m].i + 1]_vars

(* C30 witness: the refresh after a failed read of the first of two boards *)
(* has returned, the board is not marked failed, the second board is next. *)
C30_Witness ==
  \E m \in MonThreads :
    /\ tpc[m] = "m_next"
    /\ loc[m].i = 1
    /\ Len(daq_state.boards) = 2
    /\ ~board_status[daq_state.boards[1]].failed
    /\ loc[m].val = Unavailable

(***************************************************************************)
(* The short-circuit of the transition calls.                              *)
(***************************************************************************)
(* the step that follows the status check of the first actor               *)
LeavesCheck == pc = "check" /\ pc' # "check"
AlreadyThere ==
  IF op \in PtOps THEN stateName[pt_actors[1].id] = TargetOf(op)
  ELSE stateName[ru_actors[1].id] = TargetOf(op)

(* the call ends at once; it has started no thread and no actor has        *)
(* changed state (the result is True when the status was reported)         *)
EndsWithoutCommand ==
  /\ pc' = "done"
  /\ ret' \in {"true", "raised"}
  /\ threads' = threads
  /\ observed' = observed
  /\ myThreads' = {}
  /\ nbActors' = 0
  /\ stateName' = stateName

(* C31: when the first ReadoutUnit actor already reports Configured        *)
(* (Running), configure() (start()) returns true without sending a command *)
(* to any actor, and so do configure_pt() / enable_pt() when the first     *)
(* Transport actor already reports Ready / Enabled; a short-circuited call *)
(* changes no actor state.                                                 *)
C31_ShortCircuitSendsNothing ==
  [][(LeavesCheck /\ op \in {"configure_pt", "enable_pt", "configure", "start"}
        /\ AlreadyThere) => EndsWithoutCommand]_vars

(* C31 witness: a second configure() found the first readout unit          *)
(* Configured and returned True, no thread started.                        *)
C31_Witness ==
  /\ op = "configure"
  /\ callNo = 2
  /\ pc = "done"
  /\ ret = "true"
  /\ nbActors = 0
  /\ myThreads = {}
  /\ stateName[ru_actors[1].id] = "Configured"

(* C32: halt() called while the first ReadoutUnit actor already reports    *)
(* Halted returns true without sending a Halt command and without changing *)
(* the run number of any actor; the run number is changed only by a halt() *)
(* that has fanned out.                                                    *)
C32_HaltShortCircuit ==
  [][/\ (LeavesCheck /\ op = "halt" /\ AlreadyThere) =>
          (EndsWithoutCommand /\ runNumber' = runNumber)
     /\ (runNumber' # runNumber) => (op = "halt" /\ myThreads # {})]_vars

(* C32 witness: halt() on a halted topology has returned True, nothing was *)
(* sent and the run number is the one the actors started with.             *)
C32_Witness ==
  /\ op = "halt"
  /\ pc = "done"
  /\ ret = "true"
  /\ nbActors = 0
  /\ threads = {}
  /\ observed = {}
  /\ \A a \in ActorIds : runNumber[a] = 0 /\ stateName[a] = "Halted"

(***************************************************************************)
(* C33: a transition call returns once every commanded actor has reached   *)
(* the target state, and while some polled actor does not report the       *)
(* target state the call keeps polling (there is no timeout).  The actors  *)
(* change state only on the commands of the call and stay in the target    *)
(* state once there, so an actor not in the target state when the call     *)
(* leaves a poll loop has not reported it in any sweep: the call leaves a  *)
(* poll loop only when every actor the loop reads is in the target state.  *)
(***************************************************************************)
LeavesPollLoop == pc = "poll" /\ pc' \in {"fanout", "increment", "return"}

C33_PollsUntilAllReport ==
  [][(LeavesPollLoop /\ NoStaleThread) =>
       \A j \in 1..Len(PollTargets) :
         stateName[PollTargets[j].id] = TargetOf(op)]_vars

(***************************************************************************)
(* The two run numbers: the one of the manager (daq_state.run) and the one *)
(* the actors hold.  A request thread configures, starts and stops the     *)
(* acquisition and increments the run number of the manager; the topology  *)
(* is halted, or a run configured by configure_xdaq_for_run is going on.   *)
(***************************************************************************)
RunStarted(run) ==
  /\ stateName = [a \in ActorIds |->
                    IF a \in Ids(pt_actors) THEN "Enabled"
                    ELSE IF a \in Ids(Flatten(list_actors)) THEN "Running"
                    ELSE "Halted"]
  /\ runNumber = [a \in ActorIds |->
                    IF a \in Ids(Flatten(list_actors)) THEN run ELSE 0]

(* A document with one readout unit and one builder unit.                  *)
DocOneByOne == << App(tag_pt, 0, "pt0"), App(tag_ru, 0, "ru0"), App(tag_bu, 0, "bu0") >>

NumbersInit ==
  /\ parser = DocOneByOne
  /\ pt_actors = get_actors(DocOneByOne).pt
  /\ ru_actors = get_actors(DocOneByOne).ru
  /\ list_actors = get_actors(DocOneByOne).list
  /\ InitParams
  /\ InitCall
  /\ threads = {}
  /\ observed = {}
  /\ test_flag = FALSE
  /\ \E save \in BOOLEAN, running \in BOOLEAN :
       /\ daq_state = [DefaultState EXCEPT !.boards = << 1 >>, !.save = save,
                                           !.running = running]
       /\ IF running
          THEN RunStarted(daq_state.run)
          ELSE /\ stateName = [a \in ActorIds |-> "Halted"]
               /\ runNumber = [a \in ActorIds |-> 0]
  /\ settings = daq_state
  /\ InitEmptyPool
  /\ InitMonitor
  /\ InitThreads

NumbersNext ==
  \/ \E t \in ReqThreads :
       \/ CallConfigureXdaq(t)
       \/ ConfigureXdaqSteps(t)
       \/ CallStartXdaq(t)
       \/ StartXdaqSteps(t)
       \/ CallStopXdaq(t)
       \/ StopXdaqSteps(t)
       \/ CallIncrementRunNumber(t)
       \/ IncrementRunNumber(t)
       \/ IncrementRunNumberStore(t)
  \/ TopologySteps
  \/ IncrementRun

NumbersSpec == NumbersInit /\ [][NumbersNext]_vars

(* the actors hold the run number of the manager / the number that follows *)
ActorsAgree == \A a \in PipelineActors : runNumber[a] = daq_state.run
ActorsAhead == \A a \in PipelineActors : runNumber[a] = daq_state.run + 1

ParametersSent(t) == tpc[t] = "cx_params" /\ tpc'[t] = "cx_configure"
HaltIncrements == op = "halt" /\ pc = "increment" /\ pc' = "return"

(***************************************************************************)
(* C34: the two incrementers are independent.  configure_xdaq_for_run sets *)
(* the run number of every actor to the one of the manager, and nothing    *)
(* changes either number while the run is started and running; the halt()  *)
(* of stop_xdaq puts the actors one ahead; increment_run_number then makes *)
(* the two agree again when save is true, and when save is false the       *)
(* actors stay one ahead, until the next configure_xdaq_for_run.           *)
(***************************************************************************)
C34_IndependentIncrementers ==
  [][\A t \in ReqThreads :
       /\ ParametersSent(t) => ActorsAgree'
       /\ (HaltIncrements /\ ActorsAgree) => ActorsAhead'
       /\ (IncrementReturns(t) /\ ActorsAhead) =>
            IF daq_state.save THEN ActorsAgree' ELSE ActorsAhead'
       /\ (runNumber' # runNumber) => (HaltIncrements \/ tpc[t] = "cx_params")
       /\ (daq_state'.run # daq_state.run) => tpc[t] = "irn_store"]_vars

(* C34 witness: a run was going on with the actors at the manager's run    *)
(* number; stop_xdaq halted them, increment_run_number has returned with   *)
(* save false: the actors are one ahead of the manager.                    *)
C34_Witness ==
  /\ tpc["req"] = "idle"
  /\ loc["req"].top = "increment_run_number"
  /\ ~daq_state.save
  /\ daq_state.running
  /\ op = "halt"
  /\ pc = "done"
  /\ ret = "true"
  /\ ActorsAhead
  /\ \A a \in PipelineActors : stateName[a] = "Halted"

(***************************************************************************)
(* C35: no leaked handles.  After any sequence of add_board, remove_board  *)
(* and refresh_board calls (add_board for an id that is already in the     *)
(* pool included), every hardware handle that was opened and not closed is *)
(* the one the pool stores under its board id.                             *)
(***************************************************************************)
Stored(h) == \E b \in BoardIds : digitizers[b] = h

C35_NoLeakedHandle ==
  (\A t \in ReqThreads : tpc[t] = "idle") =>
    \A h \in Handles : connected[h] => Stored(h)

(***************************************************************************)
(* Re-creation of the topology (reset_xdaq): a new topology object is      *)
(* constructed from the same document and loaded.  The actor lists are     *)
(* attributes of the class, shared by all topology objects: the            *)
(* constructor clears them and get_actors() appends to them.               *)
(***************************************************************************)
(* self._ru_actors.clear() ... self._list_actors.clear()                   *)
ClearedNot(list) == list
Cleared(list) == << >>

(* self._xx_actors.append(...) for each application of the class, then     *)
(* self._xx_actors.sort(key=instance)                                      *)
AppendActors(old, doc, tag) == SortByInstance(old \o SelectClass(doc, tag))

(* if len(self._xx_actors) > 0: self._list_actors.append(self._xx_actors)  *)
RECURSIVE AppendStages(_, _, _, _)
AppendStages(stages, old, doc, tags) ==
  IF tags = << >> THEN stages
  ELSE LET actors == AppendActors(Cleared(SelectClass(old, Head(tags))), doc, Head(tags))
       IN AppendStages(IF Len(actors) > 0 THEN Append(stages, actors) ELSE stages,
                       old, doc, Tail(tags))

(* self.topology = xdaq.topology("conf/topology.xml");                     *)
(* self.topology.load_topology()                                           *)
RecreateTopology ==
  /\ op \in {"load_topology", "reset_xdaq"}
  /\ op' = "reset_xdaq"
  /\ pc' = "done"
  /\ pt_actors' = AppendActors(Cleared(pt_actors), parser, tag_pt)
  /\ ru_actors' = AppendActors(Cleared(ru_actors), parser, tag_ru)
  /\ list_actors' = AppendStages(Cleared(list_actors), Flatten(list_actors), parser,
                                 << tag_ru, tag_lf, tag_bu, tag_mu, tag_gf >>)
  /\ UNCHANGED << parser, svcVars, paramVars, actorVars, callNo, idx, k, allFlag, actorOK,
                  nbActors, polls, myThreads, ret, boardVars >>

RecreateSpec == LoadInit /\ [][LoadTopology \/ RecreateTopology]_vars

Recreated == op = "reset_xdaq" /\ pc = "done"

(* the places of the stage list that hold the application                  *)
PlacesOf(a) ==
  { << s, i >> \in (1..Len(list_actors)) \X (1..MaxDoc + 1) :
      i <= Len(list_actors[s]) /\ list_actors[s][i] = a }

StagesOf(g) ==
  { s \in 1..Len(list_actors) : \E i \in 1..Len(list_actors[s]) : list_actors[s][i].class = g }

(***************************************************************************)
(* C36: after any number of re-creations of the topology the stage list    *)
(* holds each declared actor exactly once, in the stage of its class, and  *)
(* each non-empty stage exactly once: the same lists as after a first load.*)
(***************************************************************************)
C36_RecreatedOnce ==
  Recreated =>
    /\ \A j \in 1..Len(parser) :
         IF parser[j].class = tag_pt
         THEN Cardinality({ i \in 1..Len(pt_actors) : pt_actors[i] = parser[j] }) = 1
         ELSE /\ Cardinality(PlacesOf(parser[j])) = 1
              /\ \A p \in PlacesOf(parser[j]) : StagesOf(parser[j].class) = { p[1] }
    /\ Len(pt_actors) = Cardinality(Declared(tag_pt))
    /\ Len(Flatten(list_actors)) = Len(parser) - Cardinality(Declared(tag_pt))
    /\ \A s \in 1..Len(list_actors) : Len(list_actors[s]) > 0
    /\ ru_actors = SelectClass(Flatten(list_actors), tag_ru)
    /\ list_actors = get_actors(parser).list

(* C36 witness: a topology with a stage of two actors and a second stage,  *)
(* after a re-creation.                                                    *)
C36_Witness ==
  /\ Recreated
  /\ Len(list_actors) = 2
  /\ Len(list_actors[1]) = 2
  /\ Len(pt_actors) = 0

(***************************************************************************)
(* ResolutionTuner: start_tuning and stop_tuning under the tuner's lock,   *)
(* and the _tuning_loop thread of each session.  The loop talks to the     *)
(* DAQ through the manager: set_save_data, and (outside test mode) the     *)
(* run calls, of which set_running_state changes the manager's state; the  *)
(* manager swallows what the topology calls raise.                         *)
(***************************************************************************)
notServices == << pt_actors, ru_actors, list_actors, parser, paramVars, actorVars,
                  callVars, poolVars, monVars, thrVars >>

FreeSessions == { s \in Sessions : session_status[s] = "none" }
NewSession == CHOOSE s \in FreeSessions : \A g \in FreeSessions : s <= g

Ended == {"completed", "stopped", "error"}

(* with self.lock: refused while a session is running or the board is not  *)
(* registered; else a new session, stop_event.clear(), a new thread.       *)
(* num_steps is int(config['num_steps']), taken as given.                  *)
StartTuning ==
  /\ tuner_lock = "free"
  /\ IF current_session = NoneId THEN TRUE
     ELSE session_status[current_session] # "running"
  /\ FreeSessions # {}
  /\ \E b \in BoardIds, n \in (-1)..MaxSteps :
       /\ IndexOfBoard(daq_state.boards, b) # 0
       /\ tuning_loc' = [tuning_loc EXCEPT ![NewSession] =
                           [NoTuning EXCEPT !.board = b, !.num_steps = n]]
  /\ current_session' = NewSession
  /\ session_status' = [session_status EXCEPT ![NewSession] = "running"]
  /\ stop_event' = FALSE
  /\ tuning_pc' = [tuning_pc EXCEPT ![NewSession] = "tl_begin"]
  /\ save_before' = [save_before EXCEPT ![NewSession] = daq_state.save]
  /\ UNCHANGED << notServices, mgrVars, statsVars, tuner_lock >>

(* with self.lock: if a session is running, stop_event.set(), then join    *)
StopTuning ==
  /\ tuner_lock = "free"
  /\ current_session # NoneId
  /\ session_status[current_session] = "running"
  /\ stop_event' = TRUE
  /\ tuner_lock' = "stop_tuning"
  /\ UNCHANGED << notServices, mgrVars, statsVars, current_session, session_status,
                  tuning_pc, tuning_loc, save_before >>

(* tuning_thread.join(timeout=30) returns when the thread has ended, or     *)
(* after the timeout: outside test mode the thread may be inside a DAQ     *)
(* call (halt polls without a limit) for longer than that.                 *)
StopTuningJoin ==
  /\ tuner_lock = "stop_tuning"
  /\ tuning_pc[current_session] = "done" \/ ~test_flag
  /\ tuner_lock' = "free"
  /\ UNCHANGED << notServices, mgrVars, statsVars, current_session, session_status,
                  stop_event, tuning_pc, tuning_loc, save_before >>

TuningGoto(s, label) == tuning_pc' = [tuning_pc EXCEPT ![s] = label]
TuningStatus(s, status) == session_status' = [session_status EXCEPT ![s] = status]

(* daq_manager.set_save_data(save) *)
TunerSetSaveData(save) ==
  /\ daq_state' = [daq_state EXCEPT !.save = save]
  /\ UpdateProject(daq_state')

(* if not self.test_flag: ... daq_manager.set_running_state(running) *)
TunerSetRunning(state, running) ==
  IF test_flag THEN state
  ELSE [state EXCEPT !.running = running,
                     !.start_time = IF running THEN Now ELSE NoTime]

(* the board lookup, original_save = get_save_data(), and                  *)
(* _generate_parameter_values: np.linspace raises for num_steps < 0        *)
TuningBegin(s) ==
  /\ tuning_pc[s] = "tl_begin"
  /\ IF IndexOfBoard(daq_state.boards, tuning_loc[s].board) = 0
     THEN /\ TuningStatus(s, "error")
          /\ TuningGoto(s, "done")
          /\ tuning_loc' = tuning_loc
     ELSE /\ session_status' = session_status
          /\ tuning_loc' = [tuning_loc EXCEPT
                              ![s].original_save = daq_state.save,
                              ![s].total_steps = IF tuning_loc[s].num_steps < 0 THEN 0
                                                 ELSE tuning_loc[s].num_steps]
          /\ TuningGoto(s, IF tuning_loc[s].num_steps < 0 THEN "tl_except"
                           ELSE "tl_sweep")
  /\ UNCHANGED << notServices, mgrVars, statsVars, current_session, stop_event,
                  tuner_lock, save_before >>

(* the head of an iteration of the initial sweep: the stop check, then     *)
(* _set_parameter_value, which fails (continue) or succeeds                *)
TuningSweep(s) ==
  /\ tuning_pc[s] = "tl_sweep"
  /\ IF tuning_loc[s].i = tuning_loc[s].total_steps
     THEN /\ TuningGoto(s, "tl_adapt")
          /\ UNCHANGED << session_status, tuning_loc >>
     ELSE IF stop_event
     THEN /\ TuningStatus(s, "stopped")
          /\ TuningGoto(s, "tl_adapt")
          /\ tuning_loc' = tuning_loc
     ELSE /\ session_status' = session_status
          /\ \/ /\ tuning_loc' = [tuning_loc EXCEPT ![s].i = @ + 1]
                /\ tuning_pc' = tuning_pc
             \/ /\ tuning_loc' = tuning_loc
                /\ TuningGoto(s, "tl_run")
  /\ UNCHANGED << notServices, mgrVars, statsVars, current_session, stop_event,
                  tuner_lock, save_before >>

(* set_save_data(False), then the run is started *)
TuningRun(s) ==
  /\ tuning_pc[s] \in {"tl_run", "tl_rrun"}
  /\ daq_state' = TunerSetRunning([daq_state EXCEPT !.save = FALSE], TRUE)
  /\ UpdateProject(daq_state')
  /\ TuningGoto(s, IF tuning_pc[s] = "tl_run" THEN "tl_wait" ELSE "tl_rwait")
  /\ UNCHANGED << notServices, test_flag, statsVars, current_session, session_status,
                  stop_event, tuner_lock, tuning_loc, save_before >>

(* the wait for run_duration and the stop check after it: stopped, the     *)
(* run is halted and the sweep left with status "stopped"                  *)
TuningWait(s) ==
  /\ tuning_pc[s] = "tl_wait"
  /\ IF stop_event
     THEN /\ daq_state' = TunerSetRunning(daq_state, FALSE)
          /\ TuningStatus(s, "stopped")
          /\ TuningGoto(s, "tl_adapt")
     ELSE /\ daq_state' = daq_state
          /\ session_status' = session_status
          /\ TuningGoto(s, "tl_fit")
  /\ UpdateProject(daq_state')
  /\ UNCHANGED << notServices, test_flag, statsVars, current_session, stop_event,
                  tuner_lock, tuning_loc, save_before >>

(* the fit, the end of the run, the point recorded; a good fit gives a     *)
(* best point                                                              *)
TuningFit(s) ==
  /\ tuning_pc[s] = "tl_fit"
  /\ daq_state' = TunerSetRunning(daq_state, FALSE)
  /\ UpdateProject(daq_state')
  /\ \E fit_success \in BOOLEAN :
       tuning_loc' = [tuning_loc EXCEPT
                        ![s].i = @ + 1,
                        ![s].best_point = @ \/ fit_success]
  /\ TuningGoto(s, "tl_sweep")
  /\ UNCHANGED << notServices, test_flag, statsVars, current_session, session_status,
                  stop_event, tuner_lock, save_before >>

(* if not self.stop_event.is_set() and session.best_point: the refined     *)
(* values (those not yet tested, at most MaxRefine of them here)           *)
TuningAdapt(s) ==
  /\ tuning_pc[s] = "tl_adapt"
  /\ IF ~stop_event /\ tuning_loc[s].best_point
     THEN /\ \E n \in 0..MaxRefine :
               tuning_loc' = [tuning_loc EXCEPT ![s].refined = n, ![s].j = 0,
                                                ![s].total_steps = @ + n]
          /\ TuningGoto(s, "tl_refine")
     ELSE /\ tuning_loc' = tuning_loc
          /\ TuningGoto(s, "tl_restore")
  /\ UNCHANGED << notServices, mgrVars, statsVars, current_session, session_status,
                  stop_event, tuner_lock, save_before >>

(* the head of an iteration of the refinement: a stop breaks the loop and  *)
(* leaves the status alone                                                 *)
TuningRefine(s) ==
  /\ tuning_pc[s] = "tl_refine"
  /\ IF tuning_loc[s].j = tuning_loc[s].refined \/ stop_event
     THEN /\ TuningGoto(s, "tl_restore")
          /\ tuning_loc' = tuning_loc
     ELSE \/ /\ tuning_loc' = [tuning_loc EXCEPT ![s].j = @ + 1]
             /\ tuning_pc' = tuning_pc
          \/ /\ tuning_loc' = tuning_loc
             /\ TuningGoto(s, "tl_rrun")
  /\ UNCHANGED << notServices, mgrVars, statsVars, current_session, session_status,
                  stop_event, tuner_lock, save_before >>

(* the wait of a refinement run: stopped, the run is halted and the loop   *)
(* left; the status is not touched                                         *)
TuningRefineWait(s) ==
  /\ tuning_pc[s] = "tl_rwait"
  /\ IF stop_event
     THEN /\ daq_state' = TunerSetRunning(daq_state, FALSE)
          /\ TuningGoto(s, "tl_restore")
     ELSE /\ daq_state' = daq_state
          /\ TuningGoto(s, "tl_rfit")
  /\ UpdateProject(daq_state')
  /\ UNCHANGED << notServices, test_flag, statsVars, current_session, session_status,
                  stop_event, tuner_lock, tuning_loc, save_before >>

TuningRefineFit(s) ==
  /\ tuning_pc[s] = "tl_rfit"
  /\ daq_state' = TunerSetRunning(daq_state, FALSE)
  /\ UpdateProject(daq_state')
  /\ tuning_loc' = [tuning_loc EXCEPT ![s].j = @ + 1]
  /\ TuningGoto(s, "tl_refine")
  /\ UNCHANGED << notServices, test_flag, statsVars, current_session, session_status,
                  stop_event, tuner_lock, save_before >>

(* self.daq_manager.set_save_data(original_save) *)
Restored(state, original_save) == original_save

TuningRestore(s) ==
  /\ tuning_pc[s] = "tl_restore"
  /\ TunerSetSaveData(Restored(daq_state, tuning_loc[s].original_save))
  /\ TuningGoto(s, "tl_status")
  /\ UNCHANGED << notServices, test_flag, statsVars, current_session, session_status,
                  stop_event, tuner_lock, tuning_loc, save_before >>

(* if session.status == "running": session.status = "completed" *)
TuningEnd(s) ==
  /\ tuning_pc[s] = "tl_status"
  /\ TuningStatus(s, IF session_status[s] = "running" THEN "completed"
                     ELSE session_status[s])
  /\ TuningGoto(s, "done")
  /\ UNCHANGED << notServices, mgrVars, statsVars, current_session, stop_event,
                  tuner_lock, tuning_loc, save_before >>

(* except Exception: status "error", the DAQ stopped *)
TuningExcept(s) ==
  /\ tuning_pc[s] = "tl_except"
  /\ TuningStatus(s, "error")
  /\ daq_state' = TunerSetRunning(daq_state, FALSE)
  /\ UpdateProject(daq_state')
  /\ TuningGoto(s, "done")
  /\ UNCHANGED << notServices, test_flag, statsVars, current_session, stop_event,
                  tuner_lock, tuning_loc, save_before >>

TuningLoop(s) ==
  \/ TuningBegin(s)
  \/ TuningSweep(s)
  \/ TuningRun(s)
  \/ TuningWait(s)
  \/ TuningFit(s)
  \/ TuningAdapt(s)
  \/ TuningRefine(s)
  \/ TuningRefineWait(s)
  \/ TuningRefineFit(s)
  \/ TuningRestore(s)
  \/ TuningEnd(s)
  \/ TuningExcept(s)

TunedBoards == << 1 >>

(* one board registered, saving on or off as the user left it *)
TunerInit ==
  /\ InitIdleTopology
  /\ test_flag \in BOOLEAN
  /\ \E save \in BOOLEAN :
       daq_state = [DefaultState EXCEPT !.boards = TunedBoards, !.save = save]
  /\ settings = daq_state
  /\ InitEmptyPool
  /\ InitMonitor
  /\ InitThreads

TunerNext ==
  \/ StartTuning
  \/ StopTuning
  \/ StopTuningJoin
  \/ \E s \in Sessions : TuningLoop(s)

TunerSpec == TunerInit /\ [][TunerNext]_vars

TunerIdle == \A s \in Sessions : tuning_pc[s] \in {"none", "done"}

(* C37: when no tuning thread is left, the save setting of the DAQ is the  *)
(* one it had when each ended session (completed, stopped or error) was    *)
(* started: the tuner switches saving off for its own runs only.           *)
C37_SaveRestored ==
  TunerIdle =>
    \A s \in Sessions :
      session_status[s] \in Ended => daq_state.save = save_before[s]

(* the loop of session s sees the stop event and leaves a run or a loop    *)
(* because of it                                                           *)
Interrupted(s) ==
  /\ stop_event
  /\ \/ tuning_pc[s] \in {"tl_wait", "tl_rwait"}
     \/ tuning_pc[s] = "tl_sweep" /\ tuning_loc[s].i < tuning_loc[s].total_steps
     \/ tuning_pc[s] = "tl_refine" /\ tuning_loc[s].j < tuning_loc[s].refined
  /\ tuning_pc'[s] # tuning_pc[s]

(* C38: a tuning loop that stop_tuning interrupts, in the initial sweep,   *)
(* between two steps or in the refinement phase, gets the status           *)
(* "stopped" (and so cannot end as "completed").                           *)
C38_StoppedWhenInterrupted ==
  [][\A s \in Sessions : Interrupted(s) => session_status'[s] = "stopped"]_vars

(***************************************************************************)
(* StatsManager: start_run and stop_run under collection_lock, and the     *)
(* _collection_loop thread, which takes the same lock for each line.       *)
(***************************************************************************)
notStats == << notServices, mgrVars, tunerVars >>

DeadCollectors == { c \in Collectors : collection_pc[c] = "dead" }
NewCollector == CHOOSE c \in DeadCollectors : \A g \in DeadCollectors : c <= g

(* with self.collection_lock: refused while collecting; else the file of   *)
(* the run is written anew (header only), collecting = True and a new      *)
(* thread is started                                                       *)
StatsStartRun ==
  /\ collection_lock = "free"
  /\ ~collecting
  /\ DeadCollectors # {}
  /\ \E run_number \in 0..MaxRun :
       /\ stats_file' = run_number
       /\ current_run_number' = run_number
       /\ stats_lines' = [stats_lines EXCEPT ![run_number] = 0]
  /\ collecting' = TRUE
  /\ collection_thread' = NewCollector
  /\ collection_pc' = [collection_pc EXCEPT ![NewCollector] = "cl_while"]
  /\ UNCHANGED << notStats, collection_lock >>

(* os.makedirs or open raises: the fields of the run are set, nothing is   *)
(* started, False is returned                                              *)
StatsStartRunFails ==
  /\ collection_lock = "free"
  /\ ~collecting
  /\ \E run_number \in 0..MaxRun :
       /\ stats_file' = run_number
       /\ current_run_number' = run_number
  /\ UNCHANGED << notStats, collecting, collection_thread, collection_lock,
                  collection_pc, stats_lines >>

(* with self.collection_lock: collecting = False, then the join *)
StatsStopRun ==
  /\ collection_lock = "free"
  /\ collecting
  /\ collecting' = FALSE
  /\ collection_lock' = "stop_run"
  /\ UNCHANGED << notStats, collection_thread, stats_file, current_run_number,
                  collection_pc, stats_lines >>

(* collection_thread.join(timeout=5) returns when the thread has ended, or *)
(* after the timeout when the thread waits for the lock stop_run holds;    *)
(* the fields of the run are cleared and the lock is released              *)
StatsStopRunJoin ==
  /\ collection_lock = "stop_run"
  /\ IF collection_thread = NoneId THEN TRUE
     ELSE collection_pc[collection_thread] \in {"dead", "cl_lock"}
  /\ stats_file' = NoFile
  /\ current_run_number' = NoFile
  /\ collection_lock' = "free"
  /\ UNCHANGED << notStats, collecting, collection_thread, collection_pc,
                  stats_lines >>

(* while self.collecting: *)
CollectionCheck(c) ==
  /\ collection_pc[c] = "cl_while"
  /\ collection_pc' = [collection_pc EXCEPT ![c] = IF collecting THEN "cl_lock"
                                                  ELSE "dead"]
  /\ UNCHANGED << notStats, collecting, collection_thread, collection_lock,
                  stats_file, current_run_number, stats_lines >>

(* with self.collection_lock: break when not collecting or without a file; *)
(* else one line is appended to self.stats_file (or not, when its          *)
(* directory is gone), and the thread sleeps                               *)
CollectionBody(c) ==
  /\ collection_pc[c] = "cl_lock"
  /\ collection_lock = "free"
  /\ IF ~collecting \/ stats_file = NoFile
     THEN /\ collection_pc' = [collection_pc EXCEPT ![c] = "dead"]
          /\ stats_lines' = stats_lines
     ELSE /\ collection_pc' = [collection_pc EXCEPT ![c] = "cl_while"]
          /\ \/ /\ stats_lines[stats_file] < MaxLines
                /\ stats_lines' = [stats_lines EXCEPT ![stats_file] = @ + 1]
             \/ stats_lines' = stats_lines
  /\ UNCHANGED << notStats, collecting, collection_thread, collection_lock,
                  stats_file, current_run_number >>

StatsInit ==
  /\ InitIdleTopology
  /\ test_flag \in BOOLEAN
  /\ daq_state = DefaultState
  /\ settings = DefaultState
  /\ InitEmptyPool
  /\ InitMonitor
  /\ InitThreads

StatsNext ==
  \/ StatsStartRun
  \/ StatsStartRunFails
  \/ StatsStopRun
  \/ StatsStopRunJoin
  \/ \E c \in Collectors : CollectionCheck(c) \/ CollectionBody(c)

StatsSpec == StatsInit /\ [][StatsNext]_vars

(* thread c appends a line to a stats file *)
Appends(c) ==
  /\ collection_pc[c] = "cl_lock"
  /\ collection_pc'[c] = "cl_while"
  /\ stats_lines' # stats_lines

(* C39: only the collection thread of the present run appends to a stats   *)
(* file: once stop_run has returned and start_run has started a new run,   *)
(* the thread of the run before is not alive and appending any more.       *)
C39_OneCollectionThread ==
  [][\A c \in Collectors : Appends(c) => c = collection_thread]_vars

====
